---- MODULE Spec2Model ----
(***************************************************************************)
(* Habit tracker (Flask application): the habit store, the completion      *)
(* tracker (toggle_completion), the ordering engine (reorder_habits) and   *)
(* the status / CRUD handlers of app.py, with the notification sink.       *)
(*                                                                         *)
(* Text columns that hold JSON are modelled as sequences of lexical tokens *)
(* (a quoted string, a number, a bracket, a comma ... is one token), and   *)
(* json.loads / json.dumps as a parser and a printer over those tokens.    *)
(* SQL NULL in a text column is the one-token text NullText, in an integer *)
(* or timestamp column the value Null.                                     *)
(***************************************************************************)
EXTENDS Integers, Sequences, FiniteSets, TLC

\* ---------------------------------------------------------------- bounds
MaxHabits == 2      \* habit ids range over 1..MaxHabits
MaxLen    == 3      \* longest completion log present in the initial store
MaxNow    == 3      \* the clock runs over 0..MaxNow
MaxOrder  == 2      \* longest 'order' list of a reorder payload
MaxNotes  == 2      \* the notification table holds at most this many rows
DayLen    == 2      \* clock ticks per UTC calendar day
PastDays  == 1      \* calendar days before the clock starts (dates in old logs)
MaxPauses == 2      \* the EmergencyPause table holds at most this many rows

\* ------------------------------------------------------------- constants
Null   == -1        \* SQL NULL / Python None in an integer or timestamp column

VARIABLES
    habits,         \* Habit table: id -> row
    notifications,  \* Notification table, in insertion order
    prefs,          \* UserPreferences.notifications_enabled: email -> "none" | "on" | "off"
    session,        \* the client's Flask session
    now,            \* the clock (datetime.now / datetime.utcnow)
    response,       \* the response to the last request, with the request it answers
    trail,          \* the latest run of toggle requests (at most the last two)
    deleted,        \* ids of the habits deleted so far
    emergency_pauses, \* EmergencyPause table, in insertion order
    otp_store,      \* app.otp_store: email -> the pending one-time code
    inflight,       \* the toggle requests that read the log and have not committed
    swept,          \* history: user -> the habits the user's latest emergency pause paused
    quiz_answers,   \* session['quiz_answers']: question id -> the answer given
    quiz_results    \* UserQuizResult table: user_id -> the personality type saved

vars == <<habits, notifications, prefs, session, now, response, trail, deleted,
          emergency_pauses, otp_store, inflight, swept, quiz_answers, quiz_results>>

Ids      == 1..MaxHabits
UnknownId == MaxHabits + 1          \* an id no habit ever has
Emails   == {"test@example.com"}
NoEmail  == ""                      \* session.get("email") is None
NoneStr  == "<NULL>"                \* SQL NULL in a string column
NullText == <<"NULL">>              \* SQL NULL in the completed_dates column

\* ------------------------------------------------------------ the clock
\* datetime.utcnow().date(): the calendar day of a clock value
UtcDay(t) == PastDays + 1 + (t \div DayLen)

\* date.isoformat(): YYYY-MM-DD
isoformat(d) == "2026-11-" \o (IF d < 10 THEN "0" ELSE "") \o ToString(d)

today == isoformat(UtcDay(now))

Days     == 1..UtcDay(MaxNow)
DateToks == {isoformat(d) : d \in Days}

\* --------------------------------------------------------- JSON as tokens
StrToks    == DateToks \cup {"key", "value"}     \* quoted JSON strings
NumToks    == {"456", "7"}                       \* JSON numbers
ScalarToks == StrToks \cup NumToks \cup {"null", "true", "false"}

Inner(s) == IF Len(s) <= 2 THEN <<>> ELSE SubSeq(s, 2, Len(s) - 1)

\* elements of a comma-separated token run: e1 , e2 , e3
IsItems(s) ==
    \/ s = <<>>
    \/ /\ Len(s) % 2 = 1
       /\ \A i \in 1..Len(s) : IF i % 2 = 1 THEN s[i] \in ScalarToks ELSE s[i] = ","
ItemsOf(s) == [i \in 1..((Len(s) + 1) \div 2) |-> s[2 * i - 1]]

\* members of a JSON object: k : v , k : v
IsMembers(s) ==
    \/ s = <<>>
    \/ /\ Len(s) % 4 = 3
       /\ \A i \in 1..Len(s) :
            CASE i % 4 = 1 -> s[i] \in StrToks
              [] i % 4 = 2 -> s[i] = ":"
              [] i % 4 = 3 -> s[i] \in ScalarToks
              [] OTHER     -> s[i] = ","
KeysOf(s) == [i \in 1..((Len(s) + 1) \div 4) |-> s[4 * i - 3]]

JsonError == [kind |-> "JSONDecodeError", items |-> <<>>]

\* json.loads on a text of flat JSON (scalars, lists of scalars, objects of
\* scalars); any other token sequence is a JSONDecodeError
json_loads(text) ==
    IF Len(text) = 0 THEN JsonError
    ELSE IF Len(text) = 1 THEN
        CASE text[1] \in StrToks            -> [kind |-> "str",  items |-> text]
          [] text[1] \in NumToks            -> [kind |-> "int",  items |-> text]
          [] text[1] = "null"               -> [kind |-> "None", items |-> <<>>]
          [] text[1] \in {"true", "false"}  -> [kind |-> "bool", items |-> text]
          [] OTHER                          -> JsonError
    ELSE IF text[1] = "[" /\ text[Len(text)] = "]" /\ IsItems(Inner(text))
        THEN [kind |-> "list", items |-> ItemsOf(Inner(text))]
    ELSE IF text[1] = "{" /\ text[Len(text)] = "}" /\ IsMembers(Inner(text))
        THEN [kind |-> "dict", items |-> KeysOf(Inner(text))]
    ELSE JsonError

RECURSIVE Join(_)
Join(items) ==
    IF Len(items) = 0 THEN <<>>
    ELSE IF Len(items) = 1 THEN <<items[1]>>
    ELSE <<items[1], ",">> \o Join(Tail(items))

\* json.dumps of a Python list of scalars
json_dumps(items) == <<"[">> \o Join(items) \o <<"]">>

\* ------------------------------------------------------- Python list ops
Range(s) == {s[i] : i \in 1..Len(s)}

RECURSIVE Count(_, _)
Count(s, x) ==
    IF s = <<>> THEN 0 ELSE (IF Head(s) = x THEN 1 ELSE 0) + Count(Tail(s), x)

\* a remove that deletes nothing
list_remove_nothing(s, x) == s

\* list.remove(x): delete the first occurrence of x
RECURSIVE list_remove(_, _)
list_remove(s, x) ==
    IF s = <<>> THEN <<>>
    ELSE IF Head(s) = x THEN Tail(s)
    ELSE <<Head(s)>> \o list_remove(Tail(s), x)

list_append(s, x) == Append(s, x)

\* ------------------------------------------------------------ the store
\* the completed status pair of a new habit (completion feature)
CompletedPair == [is_completed |-> FALSE, completed_at |-> Null]

\* a row of the Habit table (models.py) with the position attribute that
\* reorder_habits assigns and the completed status pair
Habit(name, description, category, priority, created_at, completed_dates) ==
    [name            |-> name,
     description     |-> description,
     category        |-> category,
     priority        |-> priority,
     created_at      |-> created_at,
     completed_dates |-> completed_dates,
     user_id         |-> 0,
     is_archived     |-> FALSE,
     archived_at     |-> Null,
     is_paused       |-> FALSE,
     paused_at       |-> Null,
     position        |-> Null,
     is_completed    |-> CompletedPair.is_completed,
     completed_at    |-> CompletedPair.completed_at]

\* Habit.query.get / db.session.get
Exists(hid) == hid \in DOMAIN habits

\* ------------------------------------------------- requests and responses
\* a JSON request body: absent (or not JSON), an object, or an array; for
\* an object, whether it has "order" and of which type; the elements of the
\* "order" list (of the array itself, when the body is an array)
NoPayload == [body |-> "none", order_kind |-> "missing", order |-> <<>>]

\* the query string of GET /habit-tracker; NoneStr for an argument that was
\* not sent, else its characters (search) or its words and commas (filters)
NoArgs == [sort |-> NoneStr, search |-> <<>>, category |-> <<>>, priority |-> <<>>]

\* the figures of the statistics page
NoStats == [total_habits |-> 0, active_habits |-> 0, paused_habits |-> 0,
            archived_habits |-> 0, category_counts |-> <<>>]

\* the fields of a posted form; NoneStr for a field that was not sent
NoForm == [name |-> NoneStr, description |-> NoneStr, category |-> NoneStr,
           category_custom |-> NoneStr, priority |-> NoneStr]

\* the JSON body posted to /signin; NoneStr for a key that was not sent
NoData == [email |-> NoneStr, otp |-> NoneStr, action |-> NoneStr]

Response(handler, path, hid, status, location) ==
    [handler       |-> handler,
     path          |-> path,
     hid           |-> hid,
     authenticated |-> session.authenticated,
     email         |-> session.email,
     user_id       |-> session.user_id,
     status        |-> status,
     location      |-> location,
     success       |-> FALSE,
     updated       |-> <<>>,
     count         |-> 0,
     payload       |-> NoPayload,
     form          |-> NoForm,
     args          |-> NoArgs,
     listed        |-> <<>>,
     paused        |-> <<>>,
     stats         |-> NoStats,
     data          |-> NoData,
     archived      |-> <<>>,
     is_paused     |-> FALSE,
     auto_resumed  |-> FALSE,
     personality   |-> ""]

NoResponse == [handler |-> "", path |-> "", hid |-> 0, authenticated |-> FALSE,
               email |-> NoEmail, user_id |-> 0, status |-> 0, location |-> "",
               success |-> FALSE, updated |-> <<>>, count |-> 0,
               payload |-> NoPayload, form |-> NoForm, args |-> NoArgs,
               listed |-> <<>>, paused |-> <<>>, stats |-> NoStats,
               data |-> NoData, archived |-> <<>>, is_paused |-> FALSE,
               auto_resumed |-> FALSE, personality |-> ""]

\* the stored completion log of a habit, NullText when there is no such habit
LogOf(store, hid) ==
    IF hid \in DOMAIN store THEN store[hid].completed_dates ELSE NullText

Entry(handler, hid, status) ==
    [handler |-> handler, hid |-> hid, day |-> UtcDay(now), status |-> status,
     authenticated |-> session.authenticated, before |-> LogOf(habits, hid)]

\* the trail keeps the last two toggle requests of an unbroken run
Push(t, e) == IF Len(t) < 2 THEN Append(t, e) ELSE <<t[2], e>>

\* the trail after a request: a toggle extends the run, anything else ends it
Served(handler, hid, status) ==
    IF handler = "toggle_completion"
    THEN Push(trail, Entry(handler, hid, status)) ELSE <<>>

Answer(handler, path, hid, status, location) ==
    /\ response' = Response(handler, path, hid, status, location)
    /\ trail' = Served(handler, hid, status)

\* --------------------------------------------------- completion tracker
\* habit.completed_dates or "[]"
or_empty_list(text) ==
    IF text = NullText \/ text = <<>> THEN <<"[", "]">> ELSE text

\* try: json.loads(...) except json.JSONDecodeError: []
load_completed_dates(text) ==
    LET v == json_loads(or_empty_list(text))
    IN  IF v.kind = "JSONDecodeError" THEN [kind |-> "list", items |-> <<>>] ELSE v

\* a toggle that lost its remove branch
flip_today_append_only(v, day) ==
    IF v.kind = "list"
    THEN [raised |-> "", text |-> json_dumps(list_append(v.items, day))]
    ELSE [raised |-> "TypeError", text |-> <<>>]

\* "if today in completed_dates: remove else: append", then json.dumps.
\* On a dict or a str the membership test succeeds and the list method is
\* missing (AttributeError); on an int, None or bool the membership test
\* itself raises TypeError.
flip_today(v, day) ==
    CASE v.kind = "list" ->
            [raised |-> "",
             text   |-> json_dumps(IF day \in Range(v.items)
                                   THEN list_remove(v.items, day)
                                   ELSE list_append(v.items, day))]
      [] v.kind \in {"dict", "str"} -> [raised |-> "AttributeError", text |-> <<>>]
      [] OTHER                      -> [raised |-> "TypeError", text |-> <<>>]

toggle_text(text, day) == flip_today(load_completed_dates(text), day)

\* a toggle that answers 404 for a habit that is paused or archived
toggle_view_active_only(hid) ==
    IF ~session.authenticated
    THEN [status |-> 302, location |-> "/signin", habits |-> habits]
    ELSE IF ~Exists(hid) \/ habits[hid].is_paused \/ habits[hid].is_archived
    THEN [status |-> 404, location |-> "", habits |-> habits]
    ELSE LET out == toggle_text(habits[hid].completed_dates, today)
         IN  IF out.raised # ""
             THEN [status |-> 500, location |-> "", habits |-> habits]
             ELSE [status   |-> 302,
                   location |-> "/habit-tracker",
                   habits   |-> [habits EXCEPT ![hid].completed_dates = out.text]]

\* toggle_completion: the status, the redirect target and the store it commits
toggle_view(hid) ==
    IF ~session.authenticated
    THEN [status |-> 302, location |-> "/signin", habits |-> habits]
    ELSE IF ~Exists(hid)
    THEN [status |-> 404, location |-> "", habits |-> habits]
    ELSE LET out == toggle_text(habits[hid].completed_dates, today)
         IN  IF out.raised # ""
             THEN [status |-> 500, location |-> "", habits |-> habits]
             ELSE [status   |-> 302,
                   location |-> "/habit-tracker",
                   habits   |-> [habits EXCEPT ![hid].completed_dates = out.text]]

\* POST /habit-tracker/toggle/<int:habit_id>
toggle_completion(path, hid) ==
    /\ habits' = toggle_view(hid).habits
    /\ Answer("toggle_completion", path, hid,
              toggle_view(hid).status, toggle_view(hid).location)
    /\ UNCHANGED <<notifications, prefs, session, now, deleted, emergency_pauses, otp_store, inflight, swept, quiz_answers, quiz_results>>

\* ---------------------------------------------------------------- routing
CanonicalToggle == "/habit-tracker/toggle"
ToggleAliases == {"/toggle-completion", "/toggle_completion",
                  "/habit-tracker/toggle-completion",
                  "/habit-tracker/toggle_completion"}

\* the URL rules registered by app.py and the habits blueprint
url_map ==
    [p \in {"/habit-tracker/toggle", "/habit-tracker/reorder", "/habit-tracker",
            "/habit-tracker/delete", "/habit-tracker/update",
            "/habit-tracker/archive", "/habit-tracker/unarchive",
            "/habit-tracker/pause", "/habit-tracker/resume"} |->
        CASE p = "/habit-tracker/toggle"    -> "toggle_completion"
          [] p = "/habit-tracker/reorder"   -> "reorder_habits"
          [] p = "/habit-tracker"           -> "habit_tracker"
          [] p = "/habit-tracker/delete"    -> "delete_habit"
          [] p = "/habit-tracker/update"    -> "update_habit"
          [] p = "/habit-tracker/archive"   -> "archive_habit"
          [] p = "/habit-tracker/unarchive" -> "unarchive_habit"
          [] p = "/habit-tracker/pause"     -> "pause_habit"
          [] OTHER                          -> "resume_habit"]

Endpoint(path) == IF path \in DOMAIN url_map THEN url_map[path] ELSE "NotFound"

\* a request whose path matches no rule: 404, nothing runs
no_route(path, hid) ==
    /\ Answer("NotFound", path, hid, 404, "")
    /\ UNCHANGED <<habits, notifications, prefs, session, now, deleted, emergency_pauses, otp_store, inflight, swept, quiz_answers, quiz_results>>

\* POST <path>/<hid> on the canonical toggle path or one of the alias paths
post_toggle(path, hid) ==
    IF Endpoint(path) = "toggle_completion"
    THEN toggle_completion(path, hid)
    ELSE no_route(path, hid)

\* time passes
Tick ==
    /\ now < MaxNow
    /\ now' = now + 1
    /\ UNCHANGED <<habits, notifications, prefs, session, response, trail, deleted,
                   emergency_pauses, otp_store, inflight, swept, quiz_answers, quiz_results>>

\* ------------------------------------------------------- initial stores
SeqsUpTo(S, n) == UNION {[1..k -> S] : k \in 0..n}

\* list elements found in stored logs: dates, and a number (a wrongly
\* shaped element)
ElemToks == DateToks \cup {"7"}

ListTexts == {json_dumps(s) : s \in SeqsUpTo(ElemToks, MaxLen)}

\* stored values that are not a JSON list: NULL, the empty string, text that
\* is not JSON, an unterminated list, an object, a number, null, a string
NonListTexts ==
    {NullText, <<>>, <<"this-is-not-json">>, <<"[", isoformat(1)>>,
     <<"{", "key", ":", "value", "}">>, <<"{", isoformat(1), ":", "value", "}">>,
     <<"456">>, <<"null">>, <<"key">>, <<isoformat(1)>>}

StoredTexts == ListTexts \cup NonListTexts

Sessions == {[authenticated |-> FALSE, email |-> NoEmail, user_id |-> 0]}
            \cup {[authenticated |-> TRUE, email |-> e, user_id |-> 0] : e \in Emails}

SeedHabit(hid, text) == Habit("Read", NoneStr, NoneStr, "Medium", 0, text)

\* otp_store = {}
NoOtps == [e \in {} |-> ""]

\* the two requests that may be served at the same time, none of them started
Calls == {1, 2}
NoCall == [pc |-> "idle", hid |-> 0, day |-> 0, read |-> NullText]
NoCalls == [c \in Calls |-> NoCall]

\* session without 'quiz_answers'; an empty UserQuizResult table
NoAnswers == [q \in {} |-> ""]
NoQuizResults == [u \in {} |-> ""]

\* the users of the emergency pause; 0 is session.get('user_id', 0) and the
\* default of Habit.user_id
Users == {1, 2}
NoSwept == [u \in {0} \cup Users |-> {}]

InitRest ==
    /\ notifications = <<>>
    /\ prefs = [e \in Emails |-> "none"]
    /\ now = 0
    /\ response = NoResponse
    /\ trail = <<>>
    /\ deleted = {}
    /\ emergency_pauses = <<>>
    /\ otp_store = NoOtps
    /\ inflight = NoCalls
    /\ swept = NoSwept
    /\ quiz_answers = NoAnswers
    /\ quiz_results = NoQuizResults

\* the completion tracker: habit 1 holds any stored log, habit 2 (when it
\* exists) a log written by the program
InitToggle ==
    /\ \E t1 \in StoredTexts :
       \E others \in SUBSET (Ids \ {1}) :
       \E t2 \in {NullText, json_dumps(<<isoformat(1)>>)} :
          habits = [h \in {1} \cup others |->
                        SeedHabit(h, IF h = 1 THEN t1 ELSE t2)]
    /\ session \in Sessions
    /\ InitRest

NextToggle ==
    \/ \E hid \in Ids \cup {UnknownId} : post_toggle(CanonicalToggle, hid)
    \/ Tick

SpecToggle == InitToggle /\ [][NextToggle]_vars

\* the URL map: the canonical toggle path and the alias paths, on stores
\* whose logs the program wrote
InitAlias ==
    /\ \E present \in SUBSET Ids :
       \E logs \in [present -> {NullText, json_dumps(<<>>),
                                json_dumps(<<isoformat(UtcDay(0))>>)}] :
          habits = [h \in present |-> SeedHabit(h, logs[h])]
    /\ session \in Sessions
    /\ InitRest

NextAlias ==
    \/ \E path \in {CanonicalToggle} \cup ToggleAliases :
       \E hid \in Ids \cup {UnknownId} : post_toggle(path, hid)
    \/ Tick

SpecAlias == InitAlias /\ [][NextAlias]_vars

\* ------------------------------------------- completion tracker: claims
NoDuplicates(s) == \A i, j \in 1..Len(s) : s[i] = s[j] => i = j

\* the stored text decodes to a list whose elements are all date strings
IsDateList(text) ==
    /\ json_loads(text).kind = "list"
    /\ Range(json_loads(text).items) \subseteq DateToks

\* a well-formed log: a list of date strings that is a set (spec, data model)
WellFormedLog(text) == IsDateList(text) /\ NoDuplicates(json_loads(text).items)

\* the list a stored text decodes to; the empty list when it decodes to none
DecodedList(text) ==
    IF text # NullText /\ json_loads(text).kind = "list"
    THEN json_loads(text).items ELSE <<>>

Without(s, x) == SelectSeq(s, LAMBDA e : e # x)

LastEntry == trail[Len(trail)]

\* the last request was a toggle by an authenticated caller that redirected
\* to the habit list
ToggledOk ==
    /\ Len(trail) > 0
    /\ LastEntry.handler = "toggle_completion"
    /\ LastEntry.authenticated
    /\ LastEntry.status = 302
    /\ LastEntry.hid \in DOMAIN habits

\* C1: a toggle of an existing habit whose stored log is a well-formed list
\* flips the membership of today's date and nothing else: a present date is
\* removed, an absent one is appended, every other date keeps its place.
C1_ToggleFlipsToday ==
    [][\A hid \in {response'.hid} :
        ( /\ toggle_completion(response'.path, hid)
          /\ session.authenticated
          /\ Exists(hid)
          /\ WellFormedLog(habits[hid].completed_dates) )
        => LET old == json_loads(habits[hid].completed_dates).items
               new == json_loads(habits'[hid].completed_dates)
           IN  /\ new.kind = "list"
               /\ (today \in Range(old)) <=> (today \notin Range(new.items))
               /\ today \in Range(old)    => new.items = Without(old, today)
               /\ today \notin Range(old) => new.items = old \o <<today>>
               /\ response'.status = 302
               /\ response'.location = "/habit-tracker"]_vars

\* a toggle removed today's date from between two other dates
C1_Witness ==
    /\ ToggledOk
    /\ WellFormedLog(LastEntry.before)
    /\ Len(json_loads(LastEntry.before).items) = 3
    /\ json_loads(LastEntry.before).items[2] = isoformat(LastEntry.day)
    /\ UtcDay(now) = LastEntry.day
    /\ Len(DecodedList(habits[LastEntry.hid].completed_dates)) = 2

\* C2: whatever the stored value of the log (NULL, empty, not JSON, JSON of
\* the wrong type, a list with wrongly shaped elements), a toggle by an
\* authenticated caller on an existing habit does not fail: it takes the log
\* as empty, redirects to the habit list and stores a list holding today.
C2_ToggleNeverFails ==
    [][\A hid \in {response'.hid} :
        ( /\ toggle_completion(response'.path, hid)
          /\ session.authenticated
          /\ Exists(hid)
          /\ ~IsDateList(habits[hid].completed_dates) )
        => /\ response'.status = 302
           /\ response'.location = "/habit-tracker"
           /\ json_loads(habits'[hid].completed_dates).kind = "list"
           /\ json_loads(habits'[hid].completed_dates).items = <<today>>]_vars

\* the two last requests were toggles of the same existing habit by an
\* authenticated caller on the same UTC day
TwoToggles ==
    /\ Len(trail) = 2
    /\ trail[1].handler = "toggle_completion"
    /\ trail[2].handler = "toggle_completion"
    /\ trail[1].hid = trail[2].hid
    /\ trail[1].day = trail[2].day
    /\ trail[1].authenticated /\ trail[2].authenticated
    /\ trail[1].hid \in DOMAIN habits

\* C3: two toggles in immediate succession on the same day leave the decoded
\* log as it was before them; a malformed starting log has become the empty
\* list.
C3_TogglePairRestores ==
    TwoToggles =>
        LET before  == trail[1].before
            current == json_loads(habits[trail[1].hid].completed_dates)
        IN  /\ current.kind = "list"
            /\ current.items = IF IsDateList(before)
                               THEN json_loads(before).items ELSE <<>>

\* occurrences of a date in the decoded stored log
Occurrences(text, day) == Count(DecodedList(text), day)

C10_AliasesEquivalent ==
    [][\A hid \in {response'.hid} :
        (response'.path \in ToggleAliases /\ post_toggle(response'.path, hid))
        => /\ habits' = toggle_view(hid).habits
           /\ response'.status = toggle_view(hid).status
           /\ response'.location = toggle_view(hid).location]_vars

\* ------------------------------------------------------- ordering engine
\* an element of the "order" list: a JSON number, a numeric string, a string
\* that is no number, or null
Element(kind, n) == [kind |-> kind, n |-> n]

\* int(habit_id): the value, or TypeError / ValueError
int_coerce(e) ==
    CASE e.kind = "int"    -> [ok |-> TRUE,  v |-> e.n]
      [] e.kind = "numstr" -> [ok |-> TRUE,  v |-> e.n]
      [] OTHER             -> [ok |-> FALSE, v |-> 0]

\* a loop that gives the resolved habits their place and resets the others
RECURSIVE reorder_loop_renumber(_, _, _, _)
reorder_loop_renumber(order, i, store, updated) ==
    IF i > Len(order)
    THEN [habits  |-> [h \in DOMAIN store |->
                          IF h \in Range(updated) THEN store[h]
                          ELSE [store[h] EXCEPT !.position = 0]],
          updated |-> updated]
    ELSE LET c == int_coerce(order[i])
         IN  IF ~c.ok \/ c.v \notin DOMAIN store
             THEN reorder_loop_renumber(order, i + 1, store, updated)
             ELSE reorder_loop_renumber(order, i + 1,
                                        [store EXCEPT ![c.v].position = i],
                                        Append(updated, c.v))

\* for position, habit_id in enumerate(order, start=1): from element i on
RECURSIVE reorder_loop(_, _, _, _)
reorder_loop(order, i, store, updated) ==
    IF i > Len(order)
    THEN [habits |-> store, updated |-> updated]
    ELSE LET c == int_coerce(order[i])
         IN  IF ~c.ok \/ c.v \notin DOMAIN store
             THEN reorder_loop(order, i + 1, store, updated)
             ELSE reorder_loop(order, i + 1,
                               [store EXCEPT ![c.v].position = i],
                               Append(updated, c.v))

\* request.get_json(silent=True) or {}: a falsy body counts as {}
IsEmptyObject(payload) ==
    \/ payload.body = "none"
    \/ payload.body = "array" /\ payload.order = <<>>

\* reorder_habits: status, JSON body and the store it commits
reorder_view(payload) ==
    IF ~session.authenticated
    THEN [status |-> 401, success |-> FALSE, updated |-> <<>>, habits |-> habits]
    ELSE IF payload.body = "array" /\ ~IsEmptyObject(payload)
    THEN \* data.get: a list has no attribute 'get'
         [status |-> 500, success |-> FALSE, updated |-> <<>>, habits |-> habits]
    ELSE IF \/ IsEmptyObject(payload)
            \/ payload.order_kind # "list"
            \/ payload.order = <<>>
    THEN [status |-> 400, success |-> FALSE, updated |-> <<>>, habits |-> habits]
    ELSE LET out == reorder_loop(payload.order, 1, habits, <<>>)
         IN  IF out.updated = <<>>
             THEN [status |-> 400, success |-> FALSE, updated |-> <<>>,
                   habits |-> habits]
             ELSE [status |-> 200, success |-> TRUE, updated |-> out.updated,
                   habits |-> out.habits]

\* POST /habit-tracker/reorder
reorder_habits(payload) ==
    /\ habits' = reorder_view(payload).habits
    /\ response' = [Response("reorder_habits", "/habit-tracker/reorder", 0,
                             reorder_view(payload).status, "")
                       EXCEPT !.success = reorder_view(payload).success,
                              !.updated = reorder_view(payload).updated,
                              !.payload = payload]
    /\ trail' = Served("reorder_habits", 0, reorder_view(payload).status)
    /\ UNCHANGED <<notifications, prefs, session, now, deleted, emergency_pauses, otp_store, inflight, swept, quiz_answers, quiz_results>>

Elements ==
    {Element("int", n) : n \in Ids \cup {UnknownId}}
    \cup {Element("numstr", 1), Element("badstr", 0), Element("null", 0)}

Payloads ==
    {NoPayload,
     [body |-> "object", order_kind |-> "missing", order |-> <<>>],
     [body |-> "object", order_kind |-> "str",     order |-> <<>>],
     [body |-> "object", order_kind |-> "null",    order |-> <<>>]}
    \cup {[body |-> b, order_kind |-> "list", order |-> o] :
             b \in {"object", "array"}, o \in SeqsUpTo(Elements, MaxOrder)}

\* the ordering engine, on stores whose habits have no position yet
InitReorder ==
    /\ \E present \in SUBSET Ids :
          habits = [h \in present |-> SeedHabit(h, NullText)]
    /\ session \in Sessions
    /\ InitRest

NextReorder == \E payload \in Payloads : reorder_habits(payload)

SpecReorder == InitReorder /\ [][NextReorder]_vars

\* --------------------------------------------------- ordering engine: claims
\* the ids that the elements of an order list resolve to, in input order
RECURSIVE Resolved(_, _)
Resolved(order, store) ==
    IF order = <<>> THEN <<>>
    ELSE LET c == int_coerce(Head(order))
         IN  (IF c.ok /\ c.v \in DOMAIN store THEN <<c.v>> ELSE <<>>)
             \o Resolved(Tail(order), store)

\* the last step served this reorder request
ReorderStep == reorder_habits(response'.payload)

\* C5: after a successful reorder, 'updated' is the input without the skipped
\* elements, in input order, and its i-th id has position i: skipped elements
\* take no position slot.  (Stated for payloads that name no habit twice.)
C5_PositionsOneToN ==
    [][( /\ ReorderStep
         /\ response'.status = 200
         /\ NoDuplicates(Resolved(response'.payload.order, habits)) )
       => LET ids == Resolved(response'.payload.order, habits)
          IN  /\ response'.updated = ids
              /\ \A i \in 1..Len(ids) : habits'[ids[i]].position = i]_vars

\* the payload has no "order" field, or "order" is no list, or is empty, or
\* none of its elements resolves to a stored habit
InvalidPayload(payload, store) ==
    \/ payload.body # "object"
    \/ payload.order_kind # "list"
    \/ payload.order = <<>>
    \/ Resolved(payload.order, store) = <<>>

\* C6: a reorder by an authenticated caller answers 400 with success=false
\* exactly when the payload is invalid, and then changes no position.
C6_InvalidPayloadIs400 ==
    [][( ReorderStep /\ session.authenticated )
       => /\ (response'.status = 400 /\ ~response'.success)
               <=> InvalidPayload(response'.payload, habits)
          /\ InvalidPayload(response'.payload, habits) => habits' = habits]_vars

\* C7: a reorder changes only the position of the habits it resolved from
\* the payload: every other habit keeps its position, no other field of any
\* habit changes, no habit appears or disappears.
C7_ReorderFrame ==
    [][ReorderStep
       => /\ DOMAIN habits' = DOMAIN habits
          /\ \A h \in DOMAIN habits :
                /\ habits'[h] = [habits[h] EXCEPT !.position = habits'[h].position]
                /\ h \notin Range(Resolved(response'.payload.order, habits))
                      => habits'[h].position = habits[h].position
          /\ notifications' = notifications
          /\ prefs' = prefs]_vars

\* a successful reorder moved one habit and left an unnamed habit at the
\* position an earlier reorder gave it
C7_Witness ==
    /\ response.handler = "reorder_habits"
    /\ response.status = 200
    /\ \E h \in DOMAIN habits :
          /\ h \notin Range(response.updated)
          /\ habits[h].position = 2
    /\ \E g \in DOMAIN habits :
          /\ g \in Range(response.updated)
          /\ habits[g].position = 1

\* ---------------------------------------------------- notification sink
Notification(user_email, message, action_type, habit_name) ==
    [user_email |-> user_email, message |-> message,
     action_type |-> action_type, habit_name |-> habit_name, is_read |-> FALSE]

\* a sink that records whatever the preference says
create_notification_always(notes, user_email, message, action_type, habit_name) ==
    Append(notes, Notification(user_email, message, action_type, habit_name))

\* create_notification: nothing when the user's preferences exist with
\* notifications disabled, else one more row (committed by the caller)
create_notification(notes, user_email, message, action_type, habit_name) ==
    IF user_email \in DOMAIN prefs /\ prefs[user_email] = "off"
    THEN notes
    ELSE Append(notes, Notification(user_email, message, action_type, habit_name))

\* "email = session.get('email'); if email: create_notification(...)"
notify(message, action_type, habit_name) ==
    IF session.email # NoEmail
    THEN create_notification(notifications, session.email, message,
                             action_type, habit_name)
    ELSE notifications

\* -------------------------------------------------- habit store handlers
View(status, location, store, notes) ==
    [status |-> status, location |-> location, habits |-> store,
     notifications |-> notes]

SignIn   == View(302, "/signin", habits, notifications)
NotFound == View(404, "", habits, notifications)

\* str.strip() on the form values of the model
strip(v) ==
    CASE v = " "      -> ""
      [] v = " Read " -> "Read"
      [] OTHER        -> v

\* request.form.get(field, default).strip()
form_get(form, field, default) ==
    strip(IF form[field] = NoneStr THEN default ELSE form[field])

\* "value or None" for a nullable string column
or_none(v) == IF v = "" THEN NoneStr ELSE v

\* the id the store gives a new row: INTEGER PRIMARY KEY on SQLite is one
\* more than the largest id in the table
next_id == IF DOMAIN habits = {} THEN 1
           ELSE (CHOOSE m \in DOMAIN habits : \A h \in DOMAIN habits : h <= m) + 1

\* POST /habit-tracker
create_view(form) ==
    IF ~session.authenticated THEN SignIn
    ELSE LET name        == form_get(form, "name", "")
             description == form_get(form, "description", "")
             selected    == form_get(form, "category", "")
             category    == IF selected = "other"
                            THEN form_get(form, "category_custom", "")
                            ELSE selected
             priority    == form_get(form, "priority", "Medium")
         IN  IF name = ""
             THEN View(302, "/habit-tracker", habits, notifications)
             ELSE View(302, "/habit-tracker",
                       [h \in DOMAIN habits \cup {next_id} |->
                           IF h \in DOMAIN habits THEN habits[h]
                           ELSE Habit(name, or_none(description), or_none(category),
                                      IF priority = "" THEN "Medium" ELSE priority,
                                      now, NullText)],
                       notify("Added habit: " \o name, "added", name))

\* POST /habit-tracker/delete/<int:habit_id>  (no session check)
delete_view(hid) ==
    IF ~Exists(hid) THEN NotFound
    ELSE View(302, "/habit-tracker",
              [h \in DOMAIN habits \ {hid} |-> habits[h]],
              notify("Deleted habit: " \o habits[hid].name, "deleted",
                     habits[hid].name))

\* POST /habit-tracker/update/<int:habit_id>
update_view(hid, form) ==
    IF ~session.authenticated THEN SignIn
    ELSE IF ~Exists(hid) THEN NotFound
    ELSE LET new_name == form_get(form, "name", "")
         IN  IF new_name = ""
             THEN View(302, "/habit-tracker", habits, notifications)
             ELSE View(302, "/habit-tracker",
                       [habits EXCEPT ![hid].name = new_name],
                       notify("Edited habit: '" \o habits[hid].name \o "' to '"
                                  \o new_name \o "'", "edited", new_name))

\* an archive that answers an unknown id with the redirect
archive_view_no_404(hid) ==
    IF ~session.authenticated THEN SignIn
    ELSE IF ~Exists(hid) THEN View(302, "/habit-tracker", habits, notifications)
    ELSE View(302, "/habit-tracker",
              [habits EXCEPT ![hid].is_archived = TRUE, ![hid].archived_at = now],
              notify("Archived habit: " \o habits[hid].name, "archived",
                     habits[hid].name))

\* POST /habit-tracker/archive/<int:habit_id>
archive_view(hid) ==
    IF ~session.authenticated THEN SignIn
    ELSE IF ~Exists(hid) THEN NotFound
    ELSE View(302, "/habit-tracker",
              [habits EXCEPT ![hid].is_archived = TRUE, ![hid].archived_at = now],
              notify("Archived habit: " \o habits[hid].name, "archived",
                     habits[hid].name))

\* POST /habit-tracker/unarchive/<int:habit_id>  (request without Referer)
unarchive_view(hid) ==
    IF ~session.authenticated THEN SignIn
    ELSE IF ~Exists(hid) THEN NotFound
    ELSE View(302, "/habit-tracker",
              [habits EXCEPT ![hid].is_archived = FALSE, ![hid].archived_at = Null],
              notify("Unarchived habit: " \o habits[hid].name, "unarchived",
                     habits[hid].name))

\* a pause that also takes the habit out of the archive
pause_view_unarchives(hid) ==
    IF ~session.authenticated THEN SignIn
    ELSE IF ~Exists(hid) THEN NotFound
    ELSE View(302, "/habit-tracker",
              [habits EXCEPT ![hid].is_paused = TRUE, ![hid].paused_at = now,
                             ![hid].is_archived = FALSE, ![hid].archived_at = Null],
              notify("Paused habit: " \o habits[hid].name, "paused",
                     habits[hid].name))

\* POST /habit-tracker/pause/<int:habit_id>
pause_view(hid) ==
    IF ~session.authenticated THEN SignIn
    ELSE IF ~Exists(hid) THEN NotFound
    ELSE View(302, "/habit-tracker",
              [habits EXCEPT ![hid].is_paused = TRUE, ![hid].paused_at = now],
              notify("Paused habit: " \o habits[hid].name, "paused",
                     habits[hid].name))

\* POST /habit-tracker/resume/<int:habit_id>  (request without Referer)
resume_view(hid) ==
    IF ~session.authenticated THEN SignIn
    ELSE IF ~Exists(hid) THEN NotFound
    ELSE View(302, "/habit-tracker",
              [habits EXCEPT ![hid].is_paused = FALSE, ![hid].paused_at = Null],
              notify("Resumed habit: " \o habits[hid].name, "resumed",
                     habits[hid].name))

\* a handler commits its view and answers
Commit(handler, path, hid, form, view) ==
    /\ Len(view.notifications) <= MaxNotes
    /\ habits' = view.habits
    /\ notifications' = view.notifications
    /\ response' = [Response(handler, path, hid, view.status, view.location)
                       EXCEPT !.form = form]
    /\ trail' = Served(handler, hid, view.status)
    /\ UNCHANGED <<prefs, session, now, emergency_pauses, otp_store, inflight, swept, quiz_answers, quiz_results>>

habit_tracker_post(form) ==
    /\ next_id <= MaxHabits
    /\ Commit("habit_tracker", "/habit-tracker", 0, form, create_view(form))
    /\ UNCHANGED deleted

delete_habit(hid) ==
    /\ Commit("delete_habit", "/habit-tracker/delete", hid, NoForm, delete_view(hid))
    /\ deleted' = IF Exists(hid) THEN deleted \cup {hid} ELSE deleted

update_habit(hid, form) ==
    /\ Commit("update_habit", "/habit-tracker/update", hid, form, update_view(hid, form))
    /\ UNCHANGED deleted

archive_habit(hid) ==
    /\ Commit("archive_habit", "/habit-tracker/archive", hid, NoForm, archive_view(hid))
    /\ UNCHANGED deleted

unarchive_habit(hid) ==
    /\ Commit("unarchive_habit", "/habit-tracker/unarchive", hid, NoForm,
              unarchive_view(hid))
    /\ UNCHANGED deleted

pause_habit(hid) ==
    /\ Commit("pause_habit", "/habit-tracker/pause", hid, NoForm, pause_view(hid))
    /\ UNCHANGED deleted

resume_habit(hid) ==
    /\ Commit("resume_habit", "/habit-tracker/resume", hid, NoForm, resume_view(hid))
    /\ UNCHANGED deleted

\* the forms posted to create a habit, and to rename one
CreateForms == {[NoForm EXCEPT !.name = n] : n \in {" ", " Read "}}

UpdateForms == {[NoForm EXCEPT !.name = n] : n \in {" ", "Walk"}}

\* the habit store: the handlers that take a habit id and the creation of
\* habits, for a session with or without the authenticated flag, on a store
\* of habits created earlier
InitStore ==
    /\ \E present \in SUBSET Ids :
          habits = [h \in present |-> SeedHabit(h, NullText)]
    /\ session \in Sessions
    /\ InitRest

NextStore ==
    \/ \E form \in CreateForms : habit_tracker_post(form)
    \/ \E hid \in Ids \cup {UnknownId} : delete_habit(hid)
    \/ \E hid \in Ids \cup {UnknownId} : \E form \in UpdateForms : update_habit(hid, form)
    \/ \E hid \in Ids \cup {UnknownId} : archive_habit(hid)
    \/ \E hid \in Ids \cup {UnknownId} : unarchive_habit(hid)
    \/ \E hid \in Ids \cup {UnknownId} : pause_habit(hid)
    \/ \E hid \in Ids \cup {UnknownId} : resume_habit(hid)
    \/ \E hid \in Ids \cup {UnknownId} : post_toggle(CanonicalToggle, hid)

SpecStore == InitStore /\ [][NextStore]_vars

\* ------------------------------------------------------ habit store: claims
\* the step serves a request to a handler that takes a habit id
IdHandlerStep ==
    \/ delete_habit(response'.hid)
    \/ update_habit(response'.hid, response'.form)
    \/ archive_habit(response'.hid)
    \/ unarchive_habit(response'.hid)
    \/ pause_habit(response'.hid)
    \/ resume_habit(response'.hid)
    \/ toggle_completion(response'.path, response'.hid)

\* the step serves a request to a handler that changes the store
MutatingStep ==
    \/ IdHandlerStep
    \/ habit_tracker_post(response'.form)
    \/ reorder_habits(response'.payload)

\* C8: every mutating operation checks the session's authenticated flag
\* first: the request of a caller without it does not succeed (no redirect
\* to the habit list, no 200) and neither the habit store nor the
\* notification store changes.
C8_AuthenticatedFirst ==
    [][( MutatingStep /\ ~session.authenticated )
       => /\ habits' = habits
          /\ notifications' = notifications
          /\ response'.status # 200
          /\ response'.location # "/habit-tracker"]_vars

Untouched ==
    /\ response'.status = 404
    /\ habits' = habits
    /\ notifications' = notifications

\* C9 as stated: an authenticated request to a handler that takes a habit id
\* answers 404 and changes nothing when no stored habit has the id, and so
\* does every request on the id of a habit that was deleted earlier.
C9_NotFound_DeletedForever ==
    [][( /\ IdHandlerStep
         /\ session.authenticated
         /\ (~Exists(response'.hid) \/ response'.hid \in deleted) )
       => Untouched]_vars

\* C9 (amended): an authenticated request to a handler that takes a habit id
\* answers 404 and changes neither a habit nor the notifications when no
\* stored habit has the id; deleting a habit leaves no habit under its id, so
\* requests on it answer 404 until a later creation is given that id.
C9_NotFound ==
    [][( IdHandlerStep /\ session.authenticated )
       => /\ ~Exists(response'.hid) => Untouched
          /\ (delete_habit(response'.hid) /\ Exists(response'.hid))
                => /\ response'.hid \notin DOMAIN habits'
                   /\ response'.hid \in deleted']_vars

\* an authenticated request to pause a habit that was deleted got a 404
C9_Witness ==
    /\ response.handler = "pause_habit"
    /\ response.authenticated
    /\ response.hid \in deleted
    /\ response.hid \notin DOMAIN habits
    /\ response.status = 404

\* ------------------------------------------------- completed status pair
\* POST /habit-tracker/complete/<int:habit_id>: the flag with its timestamp,
\* and a celebration notification
complete_view(hid) ==
    IF ~session.authenticated THEN SignIn
    ELSE IF ~Exists(hid) THEN NotFound
    ELSE View(302, "/habit-tracker",
              [habits EXCEPT ![hid].is_completed = TRUE, ![hid].completed_at = now],
              notify("Completed habit: " \o habits[hid].name, "completed",
                     habits[hid].name))

\* POST /habit-tracker/uncomplete/<int:habit_id>
uncomplete_view(hid) ==
    IF ~session.authenticated THEN SignIn
    ELSE IF ~Exists(hid) THEN NotFound
    ELSE View(302, "/habit-tracker",
              [habits EXCEPT ![hid].is_completed = FALSE, ![hid].completed_at = Null],
              notify("Reactivated habit: " \o habits[hid].name, "uncompleted",
                     habits[hid].name))

complete_habit(hid) ==
    /\ Commit("complete_habit", "/habit-tracker/complete", hid, NoForm,
              complete_view(hid))
    /\ UNCHANGED deleted

uncomplete_habit(hid) ==
    /\ Commit("uncomplete_habit", "/habit-tracker/uncomplete", hid, NoForm,
              uncomplete_view(hid))
    /\ UNCHANGED deleted

\* --------------------------------------------------------- emergency pause
\* request.form.get('duration_days', 7) when the field is not sent
DefaultDurationDays == 7

\* a row of the EmergencyPause table, as activate_pause builds it
EmergencyPause(user_id, reason, duration_days, started_at, ends_at) ==
    [user_id       |-> user_id,
     is_active     |-> TRUE,
     reason        |-> reason,
     duration_days |-> duration_days,
     started_at    |-> started_at,
     ends_at       |-> ends_at,
     ended_at      |-> Null]

\* starts_at + timedelta(days=duration_days)
plus_days(t, days) == t + days * DayLen

\* a lookup of the active pause that ignores whose it is
active_pause_any_user(user_id) ==
    LET found == {i \in 1..Len(emergency_pauses) : emergency_pauses[i].is_active}
    IN  IF found = {} THEN 0
        ELSE CHOOSE i \in found : \A j \in found : i <= j

\* EmergencyPause.query.filter_by(user_id=user_id, is_active=True).first():
\* the index of the row, 0 when there is none
active_pause(user_id) ==
    LET found == {i \in 1..Len(emergency_pauses) :
                     /\ emergency_pauses[i].user_id = user_id
                     /\ emergency_pauses[i].is_active}
    IN  IF found = {} THEN 0
        ELSE CHOOSE i \in found : \A j \in found : i <= j

\* Habit.query.filter_by(user_id=user_id, is_paused=False, is_archived=False)
active_habits_of(user_id) ==
    {h \in DOMAIN habits : /\ habits[h].user_id = user_id
                           /\ ~habits[h].is_paused
                           /\ ~habits[h].is_archived}

\* an activation that sets the flag of the habits and leaves their timestamp
activate_view_flag_only(duration_days) ==
    IF ~session.authenticated
    THEN [status |-> 401, success |-> FALSE, count |-> 0, habits |-> habits,
          emergency_pauses |-> emergency_pauses]
    ELSE IF active_pause(session.user_id) # 0
    THEN [status |-> 400, success |-> FALSE, count |-> 0, habits |-> habits,
          emergency_pauses |-> emergency_pauses]
    ELSE [status  |-> 200,
          success |-> TRUE,
          count   |-> Cardinality(active_habits_of(session.user_id)),
          habits  |-> [h \in DOMAIN habits |->
                          IF h \in active_habits_of(session.user_id)
                          THEN [habits[h] EXCEPT !.is_paused = TRUE]
                          ELSE habits[h]],
          emergency_pauses |->
              Append(emergency_pauses,
                     EmergencyPause(session.user_id, "", duration_days, now,
                                    plus_days(now, duration_days)))]

\* activate_pause: status, JSON body, the stores it commits
activate_view(duration_days) ==
    IF ~session.authenticated
    THEN [status |-> 401, success |-> FALSE, count |-> 0, habits |-> habits,
          emergency_pauses |-> emergency_pauses]
    ELSE IF active_pause(session.user_id) # 0
    THEN [status |-> 400, success |-> FALSE, count |-> 0, habits |-> habits,
          emergency_pauses |-> emergency_pauses]
    ELSE [status  |-> 200,
          success |-> TRUE,
          count   |-> Cardinality(active_habits_of(session.user_id)),
          habits  |-> [h \in DOMAIN habits |->
                          IF h \in active_habits_of(session.user_id)
                          THEN [habits[h] EXCEPT !.is_paused = TRUE,
                                                 !.paused_at = now]
                          ELSE habits[h]],
          emergency_pauses |->
              Append(emergency_pauses,
                     EmergencyPause(session.user_id, "", duration_days, now,
                                    plus_days(now, duration_days)))]

\* time_diff.total_seconds() < 60: consecutive clock values are more than a
\* minute apart and requests served at one clock value less than a minute,
\* so two timestamps are within a minute when they are the same clock value
within_a_minute(a, b) == a = b

\* the habits that resume un-pauses: paused habits of the user whose
\* paused_at is set and within a minute of the start of the pause
resumed_habits(user_id, started_at) ==
    {h \in DOMAIN habits : /\ habits[h].user_id = user_id
                           /\ habits[h].is_paused
                           /\ habits[h].paused_at # Null
                           /\ within_a_minute(habits[h].paused_at, started_at)}

\* resume: status, JSON body, the stores it commits
emergency_resume_view ==
    IF ~session.authenticated
    THEN [status |-> 401, success |-> FALSE, count |-> 0, habits |-> habits,
          emergency_pauses |-> emergency_pauses]
    ELSE IF active_pause(session.user_id) = 0
    THEN [status |-> 404, success |-> FALSE, count |-> 0, habits |-> habits,
          emergency_pauses |-> emergency_pauses]
    ELSE LET i    == active_pause(session.user_id)
             back == resumed_habits(session.user_id, emergency_pauses[i].started_at)
         IN  [status  |-> 200,
              success |-> TRUE,
              count   |-> Cardinality(back),
              habits  |-> [h \in DOMAIN habits |->
                              IF h \in back
                              THEN [habits[h] EXCEPT !.is_paused = FALSE,
                                                     !.paused_at = Null]
                              ELSE habits[h]],
              emergency_pauses |->
                  [emergency_pauses EXCEPT ![i].is_active = FALSE,
                                           ![i].ended_at = now]]

\* a JSON endpoint of the emergency blueprint commits its view and answers
CommitEmergency(handler, path, view) ==
    /\ habits' = view.habits
    /\ emergency_pauses' = view.emergency_pauses
    /\ response' = [Response(handler, path, 0, view.status, "")
                       EXCEPT !.success = view.success, !.count = view.count]
    /\ trail' = Served(handler, 0, view.status)
    /\ swept' = IF handler = "activate_pause" /\ view.status = 200
                THEN [swept EXCEPT ![session.user_id] = active_habits_of(session.user_id)]
                ELSE swept
    /\ UNCHANGED <<notifications, prefs, session, now, deleted, otp_store, inflight,
                   quiz_answers, quiz_results>>

\* POST /habit-tracker/emergency/pause
activate_pause(duration_days) ==
    /\ Len(activate_view(duration_days).emergency_pauses) <= MaxPauses
    /\ CommitEmergency("activate_pause", "/habit-tracker/emergency/pause",
                       activate_view(duration_days))

\* POST /habit-tracker/emergency/resume
resume ==
    CommitEmergency("resume", "/habit-tracker/emergency/resume",
                    emergency_resume_view)

\* the durations posted to the emergency pause
Durations == {1, DefaultDurationDays}

\* the status operations, for a session with or without the authenticated
\* flag and a user who switched notifications off, on a store of active habits
InitStatus ==
    /\ \E present \in SUBSET Ids :
          habits = [h \in present |-> SeedHabit(h, NullText)]
    /\ session \in Sessions
    /\ notifications = <<>>
    /\ prefs = [e \in Emails |-> "off"]
    /\ now = 0
    /\ response = NoResponse
    /\ trail = <<>>
    /\ deleted = {}
    /\ emergency_pauses = <<>>
    /\ otp_store = NoOtps
    /\ inflight = NoCalls
    /\ swept = NoSwept
    /\ quiz_answers = NoAnswers
    /\ quiz_results = NoQuizResults

NextStatus ==
    \/ \E hid \in Ids \cup {UnknownId} : archive_habit(hid)
    \/ \E hid \in Ids \cup {UnknownId} : unarchive_habit(hid)
    \/ \E hid \in Ids \cup {UnknownId} : pause_habit(hid)
    \/ \E hid \in Ids \cup {UnknownId} : resume_habit(hid)
    \/ \E hid \in Ids \cup {UnknownId} : complete_habit(hid)
    \/ \E hid \in Ids \cup {UnknownId} : uncomplete_habit(hid)
    \/ \E duration_days \in Durations : activate_pause(duration_days)
    \/ resume

SpecStatus == InitStatus /\ [][NextStatus]_vars

\* ------------------------------------------------ status operations: claims
\* C11: in every state reached through archive, unarchive, pause, resume,
\* complete, uncomplete, emergency pause and emergency resume, each status
\* flag of a habit is true exactly when its timestamp is set.
C11_FlagIffTimestamp ==
    \A h \in DOMAIN habits :
        /\ habits[h].is_archived  <=> habits[h].archived_at # Null
        /\ habits[h].is_paused    <=> habits[h].paused_at # Null
        /\ habits[h].is_completed <=> habits[h].completed_at # Null

\* an emergency resume un-paused a habit while another habit was archived
\* and completed, each flag with its timestamp
C11_Witness ==
    /\ response.handler = "resume"
    /\ response.status = 200
    /\ response.count >= 1
    /\ \E h \in DOMAIN habits :
          /\ habits[h].is_archived /\ habits[h].archived_at # Null
          /\ habits[h].is_completed /\ habits[h].completed_at # Null
    /\ \E g \in DOMAIN habits :
          /\ ~habits[g].is_paused /\ habits[g].paused_at = Null
          /\ ~habits[g].is_archived

SameArchived(h) ==
    /\ habits'[h].is_archived = habits[h].is_archived
    /\ habits'[h].archived_at = habits[h].archived_at

SamePaused(h) ==
    /\ habits'[h].is_paused = habits[h].is_paused
    /\ habits'[h].paused_at = habits[h].paused_at

\* C12: the status pairs are independent: a pause or a resume (of one habit,
\* or the emergency one) changes the archived pair of no habit, an archive or
\* an unarchive changes the paused pair of no habit, and marking a habit
\* completed changes the archived pair of no habit.
C12_StatusPairsIndependent ==
    [][/\ ( \/ pause_habit(response'.hid)
            \/ resume_habit(response'.hid)
            \/ \E duration_days \in Durations : activate_pause(duration_days)
            \/ resume
            \/ complete_habit(response'.hid) )
          => \A h \in DOMAIN habits : h \in DOMAIN habits' /\ SameArchived(h)
       /\ ( \/ archive_habit(response'.hid)
            \/ unarchive_habit(response'.hid) )
          => \A h \in DOMAIN habits : h \in DOMAIN habits' /\ SamePaused(h)]_vars

\* an archived habit was paused: it is both paused and archived
C12_Witness ==
    /\ response.handler = "pause_habit"
    /\ response.status = 302
    /\ response.hid \in DOMAIN habits
    /\ habits[response.hid].is_archived
    /\ habits[response.hid].is_paused

\* ------------------------------------------------------------ list composer
\* the characters of the strings that habits hold
chars(s) ==
    CASE s = "Read"   -> <<"R", "e", "a", "d">>
      [] s = "walk"   -> <<"w", "a", "l", "k">>
      [] s = "daily"  -> <<"d", "a", "i", "l", "y">>
      [] s = "Health" -> <<"H", "e", "a", "l", "t", "h">>
      [] s = "health" -> <<"h", "e", "a", "l", "t", "h">>
      [] OTHER        -> <<>>

\* ord(c) of the characters in use
ord(c) ==
    CASE c = " " -> 32  [] c = "%" -> 37  [] c = "A" -> 65  [] c = "B" -> 66
      [] c = "C" -> 67  [] c = "D" -> 68  [] c = "E" -> 69
      [] c = "H" -> 72  [] c = "R" -> 82  [] c = "_" -> 95  [] c = "a" -> 97
      [] c = "d" -> 100 [] c = "e" -> 101 [] c = "h" -> 104 [] c = "i" -> 105
      [] c = "k" -> 107 [] c = "l" -> 108 [] c = "r" -> 114 [] c = "t" -> 116
      [] c = "w" -> 119 [] c = "y" -> 121 [] OTHER   -> 122

\* str.lower() / SQL lower(), character by character
lower_char(c) ==
    CASE c = "A" -> "a" [] c = "E" -> "e" [] c = "H" -> "h" [] c = "R" -> "r"
      [] OTHER   -> c

lower(cs) == [i \in 1..Len(cs) |-> lower_char(cs[i])]

\* str.strip() on a sequence of characters
RECURSIVE lstrip(_)
lstrip(cs) == IF cs # <<>> /\ Head(cs) = " " THEN lstrip(Tail(cs)) ELSE cs

RECURSIVE rstrip(_)
rstrip(cs) ==
    IF cs # <<>> /\ cs[Len(cs)] = " " THEN rstrip(SubSeq(cs, 1, Len(cs) - 1)) ELSE cs

strip_chars(cs) == rstrip(lstrip(cs))

\* a < b for Python strings: the first differing character decides, a proper
\* prefix is smaller
RECURSIVE str_lt(_, _)
str_lt(a, b) ==
    IF b = <<>> THEN FALSE
    ELSE IF a = <<>> THEN TRUE
    ELSE IF Head(a) # Head(b) THEN ord(Head(a)) < ord(Head(b))
    ELSE str_lt(Tail(a), Tail(b))

\* SQL "text LIKE pattern": % matches any run of characters, _ any one
RECURSIVE like(_, _)
like(text, pattern) ==
    IF pattern = <<>> THEN text = <<>>
    ELSE IF Head(pattern) = "%"
    THEN like(text, Tail(pattern)) \/ (text # <<>> /\ like(Tail(text), pattern))
    ELSE /\ text # <<>>
         /\ Head(pattern) = "_" \/ Head(pattern) = Head(text)
         /\ like(Tail(text), Tail(pattern))

\* column.ilike(f"%{search_query}%"): lower(column) LIKE lower(pattern),
\* NULL (no match) on a NULL column
ilike(column, search_query) ==
    /\ column # NoneStr
    /\ like(lower(chars(column)), lower(<<"%">> \o search_query \o <<"%">>))

\* param.split(","): the words between the commas, "" between two commas
RECURSIVE split_commas(_, _)
split_commas(param, word) ==
    IF param = <<>> THEN <<word>>
    ELSE IF Head(param) = "," THEN <<word>> \o split_commas(Tail(param), "")
    ELSE split_commas(Tail(param), word \o Head(param))

\* "[c for c in param.split(',') if c]" when the parameter is not empty
filter_values(param) ==
    IF param = <<>> THEN <<>>
    ELSE SelectSeq(split_commas(param, ""), LAMBDA c : c # "")

\* the ids of a set of rows in the order of a table scan (by rowid)
RECURSIVE by_rowid(_)
by_rowid(ids) ==
    IF ids = {} THEN <<>>
    ELSE LET m == CHOOSE i \in ids : \A j \in ids : i <= j
         IN  <<m>> \o by_rowid(ids \ {m})

\* base_query.all() on a Habit table: the rows that pass the status,
\* category, priority and search filters
base_query(store, category_filters, priority_filters, search_query) ==
    {h \in DOMAIN store :
        /\ ~store[h].is_archived
        /\ ~store[h].is_paused
        /\ category_filters # <<>> =>
              /\ store[h].category # NoneStr
              /\ store[h].category \in Range(category_filters)
        /\ priority_filters # <<>> =>
              /\ store[h].priority # NoneStr
              /\ store[h].priority \in Range(priority_filters)
        /\ search_query # <<>> =>
              \/ ilike(store[h].name, search_query)
              \/ ilike(store[h].description, search_query)
              \/ ilike(store[h].category, search_query)}

\* a rank that puts Low with Medium
priority_order_two_levels(priority) ==
    CASE priority = "High" -> 0 [] OTHER -> 1

\* priority_order.get(h.priority, 1)
priority_order(priority) ==
    CASE priority = "High" -> 0 [] priority = "Medium" -> 1
      [] priority = "Low"  -> 2 [] OTHER -> 1

\* an order by the position that reorder assigns, whatever sort_by is
before_by_position(store, a, b, sort_by) == store[a].position < store[b].position

\* key(a) < key(b), or key(a) > key(b) with reverse=True, for the sort key
\* that sort_by selects, on rows a and b of a Habit table
before(store, a, b, sort_by) ==
    CASE sort_by = "az" ->
            str_lt(lower(chars(store[a].name)), lower(chars(store[b].name)))
      [] sort_by = "za" ->
            str_lt(lower(chars(store[b].name)), lower(chars(store[a].name)))
      [] sort_by = "oldest" -> store[a].created_at < store[b].created_at
      [] sort_by = "newest" -> store[a].created_at > store[b].created_at
      [] OTHER ->
            \/ priority_order(store[a].priority) < priority_order(store[b].priority)
            \/ /\ priority_order(store[a].priority) = priority_order(store[b].priority)
               /\ store[a].created_at < store[b].created_at

\* sorted(): stable, an element goes behind the elements it is not before
RECURSIVE insert(_, _, _, _)
insert(store, s, x, sort_by) ==
    IF s = <<>> THEN <<x>>
    ELSE IF before(store, x, Head(s), sort_by) THEN <<x>> \o s
    ELSE <<Head(s)>> \o insert(store, Tail(s), x, sort_by)

RECURSIVE sorted(_, _, _)
sorted(store, s, sort_by) ==
    IF s = <<>> THEN <<>>
    ELSE insert(store, sorted(store, SubSeq(s, 1, Len(s) - 1), sort_by), s[Len(s)],
                sort_by)

\* a default sort key that is the key of the previous request
sort_arg_sticky(args) ==
    IF args.sort # NoneStr THEN args.sort
    ELSE IF response.args.sort = NoneStr THEN "priority" ELSE response.args.sort

\* request.args.get("sort", "priority")
sort_arg(args) == IF args.sort = NoneStr THEN "priority" ELSE args.sort

\* the habits list that the GET branch composes from a Habit table
compose(store, args) ==
    sorted(store,
           by_rowid(base_query(store,
                               filter_values(args.category),
                               filter_values(args.priority),
                               strip_chars(args.search))),
           sort_arg(args))

\* the active list of GET /habit-tracker
active_list(args) == compose(habits, args)

\* a paused section that is not hidden by a search
paused_rows_always(args) ==
    {h \in DOMAIN habits : ~habits[h].is_archived /\ habits[h].is_paused}

\* the rows of the paused section: none when searching
paused_rows(args) ==
    IF strip_chars(args.search) # <<>> THEN {}
    ELSE {h \in DOMAIN habits : ~habits[h].is_archived /\ habits[h].is_paused}

\* .order_by(Habit.paused_at.desc()).all(): every order of the rows that has
\* the later paused_at first (rows of equal paused_at come in any order)
paused_lists(args) ==
    {s \in [1..Cardinality(paused_rows(args)) -> paused_rows(args)] :
        /\ \A i, j \in DOMAIN s : s[i] = s[j] => i = j
        /\ \A i, j \in DOMAIN s :
              i < j => habits[s[i]].paused_at >= habits[s[j]].paused_at}

\* GET /habit-tracker
habit_tracker_get(args) ==
    /\ IF ~session.authenticated
       THEN response' = [Response("habit_tracker", "/habit-tracker", 0, 302, "/signin")
                            EXCEPT !.args = args]
       ELSE \E paused_habits \in paused_lists(args) :
               response' = [Response("habit_tracker", "/habit-tracker", 0, 200, "")
                               EXCEPT !.args = args,
                                      !.listed = active_list(args),
                                      !.paused = paused_habits]
    /\ trail' = <<>>
    /\ UNCHANGED <<habits, notifications, prefs, session, now, deleted,
                   emergency_pauses, otp_store, inflight, swept, quiz_answers, quiz_results>>

\* a stored habit in one of the states the status handlers leave it in
StoredHabit(name, description, category, priority, created_at, status) ==
    [Habit(name, description, category, priority, created_at, NullText) EXCEPT
        !.is_archived  = status \in {"archived", "paused+archived"},
        !.archived_at  = IF status \in {"archived", "paused+archived"}
                         THEN created_at ELSE Null,
        !.is_paused    = status \in {"paused", "paused+archived"},
        !.paused_at    = IF status \in {"paused", "paused+archived"}
                         THEN created_at ELSE Null,
        !.is_completed = status = "completed",
        !.completed_at = IF status = "completed" THEN created_at ELSE Null]

\* the habits of the stores that the list is composed from: habits that
\* differ in priority and age, in their texts, and in their status
StoredHabits ==
    {StoredHabit("Read", NoneStr, NoneStr,  "High",   0, "active"),
     StoredHabit("Read", "daily", NoneStr,  "Low",    0, "active"),
     StoredHabit("walk", "daily", "Health", "Medium", 0, "active"),
     StoredHabit("walk", NoneStr, "health", "Low",    1, "active"),
     StoredHabit("Read", NoneStr, "Health", "Medium", 1, "paused"),
     StoredHabit("Read", NoneStr, NoneStr,  "Medium", 0, "archived"),
     StoredHabit("walk", "daily", "Health", "Medium", 0, "paused+archived"),
     StoredHabit("walk", "daily", "Health", "High",   1, "completed")}

\* search arguments: none, blanks, a word in the other case, a word with
\* blanks around it, a LIKE wildcard, a word that no habit holds
Searches ==
    {<<>>, <<" ">>, <<"E", "A">>, <<" ", "h", "e", "a", " ">>, <<"%">>,
     <<"k", "k">>}

CategoryParams == {<<>>, <<"Health">>, <<",", "health">>}

PriorityParams == {<<>>, <<"Medium", ",", "Low">>}

\* the query strings: every sort key without filters, and every combination
\* of search, category filter and priority filter
QueryArgs ==
    {[NoArgs EXCEPT !.sort = k] :
        k \in {NoneStr, "priority", "az", "za", "oldest", "newest", "random"}}
    \cup {[NoArgs EXCEPT !.sort = "random", !.search = <<"E", "A">>]}
    \cup {[NoArgs EXCEPT !.search = q, !.category = c, !.priority = p] :
             q \in Searches, c \in CategoryParams, p \in PriorityParams}

InitList ==
    /\ \E present \in SUBSET Ids :
          habits \in [present -> StoredHabits]
    /\ session \in Sessions
    /\ InitRest

NextList == \E args \in QueryArgs : habit_tracker_get(args)

SpecList == InitList /\ [][NextList]_vars

\* ---------------------------------------------------- list composer: claims
\* the step serves a GET of the habit list to an authenticated caller
GetStep == session.authenticated /\ habit_tracker_get(response'.args)

\* C13: whatever the store and the filter, sort and search arguments, the
\* active list holds only habits that are neither archived, nor paused, nor
\* marked completed.
C13_ActiveListOnlyActive ==
    [][GetStep
       => \A i \in DOMAIN response'.listed :
             /\ ~habits[response'.listed[i]].is_archived
             /\ ~habits[response'.listed[i]].is_paused
             /\ ~habits[response'.listed[i]].is_completed]_vars

\* a search query of blanks only is no search query
IsBlank(q) == \A i \in DOMAIN q : q[i] = " "

PausedNotArchived == {h \in DOMAIN habits : habits[h].is_paused /\ ~habits[h].is_archived}

\* C14: with a search query the paused list is empty and no paused habit is
\* in the active list; without one the paused list holds exactly the habits
\* that are paused and not archived, each once.
C14_SearchHidesPaused ==
    [][GetStep
       => /\ ~IsBlank(response'.args.search) => response'.paused = <<>>
          /\ \A i \in DOMAIN response'.listed :
                ~habits[response'.listed[i]].is_paused
          /\ IsBlank(response'.args.search)
                => /\ Range(response'.paused) = PausedNotArchived
                   /\ Len(response'.paused) = Cardinality(PausedNotArchived)]_vars

\* a search for "EA" left out the paused habit "Read": it is neither in the
\* paused list nor in the active list
C14_Witness ==
    /\ response.handler = "habit_tracker"
    /\ response.status = 200
    /\ response.args.search = <<"E", "A">>
    /\ response.args.category = <<>>
    /\ response.args.priority = <<>>
    /\ response.paused = <<>>
    /\ \E h \in PausedNotArchived :
          /\ habits[h].name = "Read"
          /\ h \notin Range(response.listed)
    /\ response.listed # <<>>

\* the rank of a priority (High before Medium before Low)
PriorityRank(priority) ==
    CASE priority = "High" -> 0 [] priority = "Medium" -> 1 [] priority = "Low" -> 2

SortKeys == {"priority", "az", "za", "oldest", "newest"}

\* C15: when the sort key is 'priority', absent or none of the five keys, the
\* active list is in the order of the priority rank and, among habits of
\* equal priority, of created_at ascending.
C15_PriorityThenAge ==
    [][( /\ GetStep
         /\ \/ response'.args.sort \in {"priority", NoneStr}
            \/ response'.args.sort \notin SortKeys )
       => \A i, j \in DOMAIN response'.listed :
             i < j =>
                LET a == habits[response'.listed[i]]
                    b == habits[response'.listed[j]]
                IN  \/ PriorityRank(a.priority) < PriorityRank(b.priority)
                    \/ /\ PriorityRank(a.priority) = PriorityRank(b.priority)
                       /\ a.created_at <= b.created_at]_vars

\* under an unknown sort key, the older of two habits of equal priority was
\* listed first although it has the larger id
C15_Witness ==
    /\ response.handler = "habit_tracker"
    /\ response.status = 200
    /\ response.args.sort = "random"
    /\ Len(response.listed) = 2
    /\ response.listed[1] > response.listed[2]
    /\ habits[response.listed[1]].priority = habits[response.listed[2]].priority
    /\ habits[response.listed[1]].created_at < habits[response.listed[2]].created_at

\* the category or priority set that a comma-delimited parameter supplies
Supplied(param) == Range(param) \ {","}

\* term is a substring of text
IsSubstring(term, text) ==
    \E k \in 0..(Len(text) - Len(term)) : SubSeq(text, k + 1, k + Len(term)) = term

\* term is a case-insensitive substring of a column that is not NULL
Holds(column, term) ==
    column # NoneStr /\ IsSubstring(lower(term), lower(chars(column)))

DescriptionCap == 200

RECURSIVE Repeat(_, _)
Repeat(c, n) ==
    IF n = 0 THEN ""
    ELSE IF n % 2 = 1 THEN c \o Repeat(c, n - 1)
    ELSE LET half == Repeat(c, n \div 2) IN half \o half

\* a description of 250 characters
LongDescription == Repeat("X", DescriptionCap) \o Repeat("Y", 50)

\* the forms posted to create a habit: with and without a name, a
\* description and a priority; a priority outside the three levels
CreateFormsFull ==
    {[NoForm EXCEPT !.name = n, !.description = d, !.priority = p] :
        n \in {" ", " Read "},
        d \in {NoneStr, "daily", LongDescription},
        p \in {NoneStr, " ", "High", "Low", "Urgent"}}

\* creation and renaming of habits on a store of habits created earlier
NextCreate ==
    \/ \E form \in CreateFormsFull : habit_tracker_post(form)
    \/ \E hid \in Ids \cup {UnknownId} : \E form \in UpdateForms : update_habit(hid, form)

SpecCreate == InitStore /\ [][NextCreate]_vars

\* -------------------------------------------------- habit creation: claims
Priorities == {"High", "Medium", "Low"}

\* the step serves a POST of the create form that adds a habit
CreateStep ==
    /\ habit_tracker_post(response'.form)
    /\ DOMAIN habits' # DOMAIN habits

\* C17: the priority of every stored habit is High, Medium or Low, and a
\* habit created without a priority has priority Medium.
C17_PriorityIsALevel ==
    [][/\ \A h \in DOMAIN habits' : habits'[h].priority \in Priorities
       /\ (CreateStep /\ response'.form.priority = NoneStr)
             => habits'[next_id].priority = "Medium"]_vars

\* C18: creating a habit with a description of more than 200 characters
\* stores the first 200 characters of it, so that no description written by
\* a creation is longer than 200 characters.
C18_DescriptionTruncated ==
    [][CreateStep
       => LET description == form_get(response'.form, "description", "")
          IN  /\ Len(description) > DescriptionCap
                    => habits'[next_id].description
                          = SubSeq(description, 1, DescriptionCap)
              /\ habits'[next_id].description # NoneStr
                    => Len(habits'[next_id].description) <= DescriptionCap]_vars

\* --------------------------------------------------------------- statistics
\* a fallback that covers NULL only
or_uncategorized_null_only(category) ==
    IF category = NoneStr THEN "Uncategorized" ELSE category

\* habit.category or "Uncategorized"
or_uncategorized(category) ==
    IF category = NoneStr \/ category = "" THEN "Uncategorized" ELSE category

\* category_counts[category] = category_counts.get(category, 0) + 1 on a
\* dict kept as its items in insertion order
count_one(counts, category) ==
    IF \E i \in DOMAIN counts : counts[i].category = category
    THEN [i \in DOMAIN counts |->
             IF counts[i].category = category
             THEN [counts[i] EXCEPT !.count = @ + 1] ELSE counts[i]]
    ELSE Append(counts, [category |-> category, count |-> 1])

\* the loop "for habit in all_habits" over the rows that are left
RECURSIVE count_categories(_, _)
count_categories(rows, counts) ==
    IF rows = <<>> THEN counts
    ELSE count_categories(Tail(rows),
                          count_one(counts, or_uncategorized(habits[Head(rows)].category)))

\* sorted(category_counts.items(), key=lambda x: x[1], reverse=True): stable
RECURSIVE insert_by_count(_, _)
insert_by_count(s, x) ==
    IF s = <<>> THEN <<x>>
    ELSE IF x.count > Head(s).count THEN <<x>> \o s
    ELSE <<Head(s)>> \o insert_by_count(Tail(s), x)

RECURSIVE sorted_by_count(_)
sorted_by_count(s) ==
    IF s = <<>> THEN <<>>
    ELSE insert_by_count(sorted_by_count(SubSeq(s, 1, Len(s) - 1)), s[Len(s)])

\* figures whose paused count takes every paused habit, archived or not
stats_view_every_paused ==
    [total_habits    |-> Cardinality(DOMAIN habits),
     active_habits   |-> Cardinality({h \in DOMAIN habits :
                            ~habits[h].is_archived /\ ~habits[h].is_paused}),
     paused_habits   |-> Cardinality({h \in DOMAIN habits : habits[h].is_paused}),
     archived_habits |-> Cardinality({h \in DOMAIN habits : habits[h].is_archived}),
     category_counts |-> sorted_by_count(count_categories(by_rowid(DOMAIN habits), <<>>))]

\* the figures that habit_stats hands to the template
stats_view ==
    [total_habits    |-> Cardinality(DOMAIN habits),
     active_habits   |-> Cardinality({h \in DOMAIN habits :
                            ~habits[h].is_archived /\ ~habits[h].is_paused}),
     paused_habits   |-> Cardinality({h \in DOMAIN habits :
                            habits[h].is_paused /\ ~habits[h].is_archived}),
     archived_habits |-> Cardinality({h \in DOMAIN habits : habits[h].is_archived}),
     category_counts |-> sorted_by_count(count_categories(by_rowid(DOMAIN habits), <<>>))]

\* GET /habit-tracker/stats
habit_stats ==
    /\ response' = IF ~session.authenticated
                   THEN Response("habit_stats", "/habit-tracker/stats", 0, 302, "/signin")
                   ELSE [Response("habit_stats", "/habit-tracker/stats", 0, 200, "")
                            EXCEPT !.stats = stats_view]
    /\ trail' = <<>>
    /\ UNCHANGED <<habits, notifications, prefs, session, now, deleted,
                   emergency_pauses, otp_store, inflight, swept, quiz_answers, quiz_results>>

\* the habits of the stores that the statistics are taken of: without a
\* category (NULL, empty), with one, in each status
CountedHabits ==
    {StoredHabit("Read", NoneStr, c, "Medium", 0, st) :
        c  \in {NoneStr, "", "Health", "Uncategorized"},
        st \in {"active", "paused", "archived", "paused+archived"}}

InitStats ==
    /\ \E present \in SUBSET Ids :
          habits \in [present -> CountedHabits]
    /\ session \in Sessions
    /\ InitRest

NextStats == habit_stats

SpecStats == InitStats /\ [][NextStats]_vars

\* ------------------------------------------------------- statistics: claims
StatsStep == session.authenticated /\ habit_stats

\* the count shown for a category, 0 when the category is not shown
Shown(counts, category) ==
    IF \E i \in DOMAIN counts : counts[i].category = category
    THEN counts[CHOOSE i \in DOMAIN counts : counts[i].category = category].count
    ELSE 0

RECURSIVE SumOfCounts(_)
SumOfCounts(counts) ==
    IF counts = <<>> THEN 0 ELSE Head(counts).count + SumOfCounts(Tail(counts))

\* C19: in the statistics by category every habit without a category (NULL
\* or the empty string) is counted under 'Uncategorized', no category is
\* shown twice, and the counts add up to the total number of habits.
C19_UncategorizedBucket ==
    [][StatsStep
       => LET counts == response'.stats.category_counts
          IN  /\ Shown(counts, NoneStr) = 0
              /\ Shown(counts, "") = 0
              /\ Shown(counts, "Uncategorized") =
                    Cardinality({h \in DOMAIN habits :
                        habits[h].category \in {NoneStr, "", "Uncategorized"}})
              /\ \A i, j \in DOMAIN counts :
                    counts[i].category = counts[j].category => i = j
              /\ SumOfCounts(counts) = response'.stats.total_habits
              /\ response'.stats.total_habits = Cardinality(DOMAIN habits)]_vars

\* a habit with a NULL category and a habit with an empty one were counted
\* together under 'Uncategorized'
C19_Witness ==
    /\ response.handler = "habit_stats"
    /\ response.status = 200
    /\ \E h, g \in DOMAIN habits :
          habits[h].category = NoneStr /\ habits[g].category = ""
    /\ Shown(response.stats.category_counts, "Uncategorized") = 2
    /\ response.stats.total_habits = 2

\* ------------------------------------------------- notification preference
\* POST /notifications/toggle on a preference: "if not prefs:
\* notifications_enabled=False, else: not prefs.notifications_enabled"
toggled(pref) == IF pref = "off" THEN "on" ELSE "off"

\* the preference records: none, or one that a number of toggles left
InitNotify ==
    /\ \E present \in SUBSET Ids :
          habits = [h \in present |-> SeedHabit(h, NullText)]
    /\ session \in Sessions
    /\ prefs \in [Emails -> {"none", toggled("none"), toggled(toggled("none"))}]
    /\ notifications = <<>>
    /\ now = 0
    /\ response = NoResponse
    /\ trail = <<>>
    /\ deleted = {}
    /\ emergency_pauses = <<>>
    /\ otp_store = NoOtps
    /\ inflight = NoCalls
    /\ swept = NoSwept
    /\ quiz_answers = NoAnswers
    /\ quiz_results = NoQuizResults

\* the handlers that notify, on a store of habits created earlier
NextNotify ==
    \/ \E form \in CreateForms : habit_tracker_post(form)
    \/ \E hid \in Ids \cup {UnknownId} : delete_habit(hid)
    \/ \E hid \in Ids \cup {UnknownId} : \E form \in UpdateForms : update_habit(hid, form)
    \/ \E hid \in Ids \cup {UnknownId} : archive_habit(hid)
    \/ \E hid \in Ids \cup {UnknownId} : unarchive_habit(hid)
    \/ \E hid \in Ids \cup {UnknownId} : pause_habit(hid)
    \/ \E hid \in Ids \cup {UnknownId} : resume_habit(hid)

SpecNotify == InitNotify /\ [][NextNotify]_vars

\* ------------------------------------------------ notification sink: claims
\* the action type that belongs to a handler
ActionType(handler) ==
    CASE handler = "habit_tracker"   -> "added"
      [] handler = "delete_habit"    -> "deleted"
      [] handler = "update_habit"    -> "edited"
      [] handler = "archive_habit"   -> "archived"
      [] handler = "unarchive_habit" -> "unarchived"
      [] handler = "pause_habit"     -> "paused"
      [] handler = "resume_habit"    -> "resumed"

\* the step is a successful add, delete, edit, archive, unarchive, pause or
\* resume: it redirects to the habit list and it found the habit (or, for an
\* add and an edit, was given a name)
SuccessfulChange ==
    /\ response'.status = 302
    /\ response'.location = "/habit-tracker"
    /\ \/ /\ habit_tracker_post(response'.form)
          /\ DOMAIN habits' # DOMAIN habits
       \/ /\ update_habit(response'.hid, response'.form)
          /\ Exists(response'.hid)
          /\ habits'[response'.hid].name = form_get(response'.form, "name", "")
          /\ form_get(response'.form, "name", "") # ""
       \/ /\ \/ delete_habit(response'.hid)
             \/ archive_habit(response'.hid)
             \/ unarchive_habit(response'.hid)
             \/ pause_habit(response'.hid)
             \/ resume_habit(response'.hid)
          /\ Exists(response'.hid)

\* C20: a successful add, delete, edit, archive, unarchive, pause or resume
\* by a session with an email adds, in the same step as the habit change,
\* exactly one notification for that email with the action type of the
\* operation when the user has no preference record or has notifications
\* enabled, and adds none when the user has notifications disabled.
C20_OneNotificationPerChange ==
    [][( SuccessfulChange /\ session.email # NoEmail )
       => IF prefs[session.email] = "off"
          THEN notifications' = notifications
          ELSE /\ Len(notifications') = Len(notifications) + 1
               /\ SubSeq(notifications', 1, Len(notifications)) = notifications
               /\ notifications'[Len(notifications')].user_email = session.email
               /\ notifications'[Len(notifications')].action_type
                     = ActionType(response'.handler)]_vars

\* a user with notifications enabled in the preference record resumed a
\* habit and got the notification of it
C20_Witness ==
    /\ response.handler = "resume_habit"
    /\ response.status = 302
    /\ response.location = "/habit-tracker"
    /\ response.email # NoEmail
    /\ prefs[response.email] = "on"
    /\ notifications # <<>>
    /\ notifications[Len(notifications)].action_type = "resumed"
    /\ notifications[Len(notifications)].user_email = response.email

\* ------------------------------------------------------- sign in with OTP
\* the identities that request a code
OtpEmails == {"success@example.com", "failure@example.com"}

\* str(random.randint(100000, 999999)): the codes the server draws
Otps == {"100000", "999999"}

\* the codes a client submits: one the server may have drawn, or another
SubmittedOtps == Otps \cup {"000000"}

\* otp_store[email] = otp
dict_set(store, email, otp) ==
    [e \in DOMAIN store \cup {email} |-> IF e = email THEN otp ELSE store[e]]

\* a verify that keeps the code it accepted
del_nothing(store, email) == store

\* del otp_store[email]
del_otp(store, email) == [e \in DOMAIN store \ {email} |-> store[e]]

\* POST /signin with a JSON object: a request for a code ("email" without
\* "action"), a verify, or anything else (the page is rendered); a verify
\* without "email" or "otp" raises KeyError
signin_view(data, otp) ==
    IF data.email # NoneStr /\ data.action = NoneStr
    THEN [status |-> 200, success |-> TRUE, session |-> session,
          otp_store |-> dict_set(otp_store, data.email, otp)]
    ELSE IF data.action = "verify"
    THEN IF data.email = NoneStr \/ data.otp = NoneStr
         THEN [status |-> 500, success |-> FALSE, session |-> session,
               otp_store |-> otp_store]
         ELSE IF data.email \in DOMAIN otp_store /\ otp_store[data.email] = data.otp
         THEN [status    |-> 200,
               success   |-> TRUE,
               session   |-> [session EXCEPT !.authenticated = TRUE,
                                             !.email = data.email],
               otp_store |-> del_otp(otp_store, data.email)]
         ELSE [status |-> 200, success |-> FALSE, session |-> session,
               otp_store |-> otp_store]
    ELSE [status |-> 200, success |-> FALSE, session |-> session,
          otp_store |-> otp_store]

\* POST /signin; otp is the code random.randint draws for this request
signin(data, otp) ==
    /\ otp_store' = signin_view(data, otp).otp_store
    /\ session' = signin_view(data, otp).session
    /\ response' = [Response("signin", "/signin", 0, signin_view(data, otp).status, "")
                       EXCEPT !.success = signin_view(data, otp).success,
                              !.data = data]
    /\ trail' = Served("signin", 0, signin_view(data, otp).status)
    /\ UNCHANGED <<habits, notifications, prefs, now, deleted, emergency_pauses,
                   inflight, swept, quiz_answers, quiz_results>>

\* the JSON objects posted to /signin
SigninData ==
    [email  : OtpEmails \cup {NoneStr},
     otp    : SubmittedOtps \cup {NoneStr},
     action : {NoneStr, "verify", "resend"}]

InitSignin ==
    /\ habits = <<>>
    /\ session \in Sessions
    /\ InitRest

NextSignin == \E data \in SigninData : \E otp \in Otps : signin(data, otp)

SpecSignin == InitSignin /\ [][NextSignin]_vars

\* ------------------------------------------------ sign in with OTP: claims
\* the step is a verify request served by signin
VerifyStep ==
    /\ response'.handler = "signin"
    /\ response'.data.action = "verify"
    /\ \E otp \in Otps : signin(response'.data, otp)

\* the submitted code equals the code stored for the submitted email
CodeMatches(data) ==
    /\ data.email \in DOMAIN otp_store
    /\ data.otp = otp_store[data.email]

\* the previous request was a successful verify of the same email and code
Replayed(data) ==
    /\ response.handler = "signin"
    /\ response.data.action = "verify"
    /\ response.success
    /\ response.data.email = data.email
    /\ response.data.otp = data.otp

\* C21: a verify changes the session only when the submitted code is the code
\* stored for that email, and then it authenticates the session as that
\* email, reports success and removes the stored code (the codes of other
\* emails stay); a verify that follows a successful verify with the same
\* email and code fails; a failed verify reports no success and leaves the
\* stored codes and the session unchanged.
C21_CodeAuthenticatesOnce ==
    [][VerifyStep =>
        LET data == response'.data
        IN  /\ (session' # session \/ response'.success) => CodeMatches(data)
            /\ CodeMatches(data) =>
                  /\ response'.success
                  /\ session'.authenticated
                  /\ session'.email = data.email
                  /\ data.email \notin DOMAIN otp_store'
                  /\ \A e \in DOMAIN otp_store \ {data.email} :
                        e \in DOMAIN otp_store' /\ otp_store'[e] = otp_store[e]
            /\ Replayed(data) => ~response'.success
            /\ ~response'.success =>
                  /\ otp_store' = otp_store
                  /\ session' = session]_vars

\* a code was accepted: the session is authenticated and the code is gone,
\* while the other email still has a pending code
C21_Witness ==
    /\ response.handler = "signin"
    /\ response.data.action = "verify"
    /\ response.success
    /\ session.authenticated
    /\ session.email = response.data.email
    /\ response.data.email \notin DOMAIN otp_store
    /\ otp_store # NoOtps

\* ------------------------------------------------- emergency pause: status
\* a status that reports the expiry and leaves the pause record active
get_status_view_report_only ==
    IF ~session.authenticated
    THEN [status |-> 401, is_paused |-> FALSE, auto_resumed |-> FALSE,
          emergency_pauses |-> emergency_pauses]
    ELSE IF active_pause(session.user_id) = 0
    THEN [status |-> 200, is_paused |-> FALSE, auto_resumed |-> FALSE,
          emergency_pauses |-> emergency_pauses]
    ELSE LET i == active_pause(session.user_id)
         IN  IF emergency_pauses[i].ends_at # Null /\ now >= emergency_pauses[i].ends_at
             THEN [status |-> 200, is_paused |-> FALSE, auto_resumed |-> TRUE,
                   emergency_pauses |-> emergency_pauses]
             ELSE [status |-> 200, is_paused |-> TRUE, auto_resumed |-> FALSE,
                   emergency_pauses |-> emergency_pauses]

\* get_status: status, JSON body, the pause records it commits; a pause
\* whose ends_at has come is marked inactive (auto-resume)
get_status_view ==
    IF ~session.authenticated
    THEN [status |-> 401, is_paused |-> FALSE, auto_resumed |-> FALSE,
          emergency_pauses |-> emergency_pauses]
    ELSE IF active_pause(session.user_id) = 0
    THEN [status |-> 200, is_paused |-> FALSE, auto_resumed |-> FALSE,
          emergency_pauses |-> emergency_pauses]
    ELSE LET i == active_pause(session.user_id)
         IN  IF emergency_pauses[i].ends_at # Null /\ now >= emergency_pauses[i].ends_at
             THEN [status |-> 200, is_paused |-> FALSE, auto_resumed |-> TRUE,
                   emergency_pauses |->
                       [emergency_pauses EXCEPT ![i].is_active = FALSE,
                                                ![i].ended_at = now]]
             ELSE [status |-> 200, is_paused |-> TRUE, auto_resumed |-> FALSE,
                   emergency_pauses |-> emergency_pauses]

\* GET /habit-tracker/emergency/status
get_status ==
    /\ emergency_pauses' = get_status_view.emergency_pauses
    /\ response' = [Response("get_status", "/habit-tracker/emergency/status", 0,
                             get_status_view.status, "")
                       EXCEPT !.is_paused = get_status_view.is_paused,
                              !.auto_resumed = get_status_view.auto_resumed]
    /\ trail' = Served("get_status", 0, get_status_view.status)
    /\ UNCHANGED <<habits, notifications, prefs, session, now, deleted, otp_store,
                   inflight, swept, quiz_answers, quiz_results>>

\* with client.session_transaction() as sess: sess['user_id'] = user_id
session_transaction(user_id) ==
    /\ session' = [session EXCEPT !.user_id = user_id]
    /\ UNCHANGED <<habits, notifications, prefs, now, response, trail, deleted,
                   emergency_pauses, otp_store, inflight, swept, quiz_answers, quiz_results>>

\* a habit of a user as the status handlers left it at clock value 0:
\* active, paused or archived
UserHabit(user_id, status) ==
    [Habit("Exercise", NoneStr, NoneStr, "Medium", 0, NullText)
        EXCEPT !.user_id = user_id,
               !.is_archived = (status = "archived"),
               !.archived_at = IF status = "archived" THEN 0 ELSE Null,
               !.is_paused = (status = "paused"),
               !.paused_at = IF status = "paused" THEN 0 ELSE Null]

\* the habits of user 1 in every status, and an active habit of user 2
UserHabits ==
    {UserHabit(1, status) : status \in {"active", "paused", "archived"}}
    \cup {UserHabit(2, "active")}

\* the emergency pause of two users on a store of their habits, for a client
\* with or without the authenticated flag that switched notifications off;
\* the requests are served one clock value after the store was written
InitEmergency ==
    /\ \E present \in SUBSET Ids : habits \in [present -> UserHabits]
    /\ session \in {[authenticated |-> a, email |-> "test@example.com", user_id |-> 1] :
                       a \in BOOLEAN}
    /\ notifications = <<>>
    /\ prefs = [e \in Emails |-> "off"]
    /\ now = 1
    /\ response = NoResponse
    /\ trail = <<>>
    /\ deleted = {}
    /\ emergency_pauses = <<>>
    /\ otp_store = NoOtps
    /\ inflight = NoCalls
    /\ swept = NoSwept
    /\ quiz_answers = NoAnswers
    /\ quiz_results = NoQuizResults

NextEmergency ==
    \/ activate_pause(DefaultDurationDays)
    \/ resume
    \/ \E user_id \in Users : session_transaction(user_id)
    \/ \E hid \in Ids : pause_habit(hid)

SpecEmergency == InitEmergency /\ [][NextEmergency]_vars

\* ------------------------------------------------- emergency pause: claims
\* the step is an emergency activation / an emergency resume
ActivateStep ==
    /\ response'.handler = "activate_pause"
    /\ activate_pause(DefaultDurationDays)

EmergencyResumeStep ==
    /\ response'.handler = "resume"
    /\ resume

\* the rows of a pause table that are the active pauses of a user
ActiveIn(pauses, user_id) ==
    {i \in 1..Len(pauses) : pauses[i].user_id = user_id /\ pauses[i].is_active}

\* the previous request was a successful emergency resume of the same user
JustResumed ==
    /\ response.handler = "resume"
    /\ response.status = 200
    /\ response.user_id = session.user_id

C23_EmergencyRoundTrip ==
    /\ [][ActivateStep /\ response'.status = 200 =>
            LET mine == {h \in DOMAIN habits : /\ habits[h].user_id = session.user_id
                                               /\ ~habits[h].is_paused
                                               /\ ~habits[h].is_archived}
            IN  /\ response'.count = Cardinality(mine)
                /\ DOMAIN habits' = DOMAIN habits
                /\ \A h \in mine : habits'[h].is_paused /\ ~habits'[h].is_archived
                /\ \A h \in DOMAIN habits \ mine : habits'[h] = habits[h]]_vars
    /\ [][EmergencyResumeStep /\ response'.status = 200 =>
            /\ DOMAIN habits' = DOMAIN habits
            /\ \A h \in DOMAIN habits :
                  IF h \in swept[session.user_id] /\ habits[h].is_paused
                  THEN ~habits'[h].is_paused
                  ELSE habits'[h] = habits[h]]_vars

\* ------------------------------------------- completion tracker: two calls
\* a commit that writes nothing
flush_nothing(store, hid, text) == store

\* db.session.commit(): UPDATE habit SET completed_dates = ? WHERE id = ?,
\* with no version column and no check of the value that was read
flush(store, hid, text) == [store EXCEPT ![hid].completed_dates = text]

\* toggle_completion up to the point where it holds the habit row and
\* today's date; a request that is turned away is answered at once
toggle_begin(call, hid) ==
    /\ inflight[call].pc = "idle"
    /\ IF session.authenticated /\ Exists(hid)
       THEN /\ inflight' = [inflight EXCEPT ![call] =
                               [pc |-> "read", hid |-> hid, day |-> UtcDay(now),
                                read |-> habits[hid].completed_dates]]
            /\ UNCHANGED <<response, trail>>
       ELSE /\ response' = Response("toggle_completion", CanonicalToggle, hid,
                                    toggle_view(hid).status, toggle_view(hid).location)
            /\ UNCHANGED <<inflight, trail>>
    /\ UNCHANGED <<habits, notifications, prefs, session, now, deleted,
                   emergency_pauses, otp_store, swept, quiz_answers, quiz_results>>

\* the rest of toggle_completion: the new log is computed from the row the
\* call read, written and committed
toggle_commit(call) ==
    /\ inflight[call].pc = "read"
    /\ LET hid == inflight[call].hid
           out == toggle_text(inflight[call].read, isoformat(inflight[call].day))
           status == IF out.raised # "" THEN 500 ELSE 302
       IN  /\ habits' = IF out.raised # "" THEN habits ELSE flush(habits, hid, out.text)
           /\ response' = Response("toggle_completion", CanonicalToggle, hid, status,
                                   IF status = 302 THEN "/habit-tracker" ELSE "")
           /\ trail' = Push(trail, [Entry("toggle_completion", hid, status)
                                       EXCEPT !.day = inflight[call].day,
                                              !.before = inflight[call].read])
    /\ inflight' = [inflight EXCEPT ![call] = NoCall]
    /\ UNCHANGED <<notifications, prefs, session, now, deleted, emergency_pauses,
                   otp_store, swept, quiz_answers, quiz_results>>

\* two clients toggle at the same time, within one clock value, on logs the
\* program wrote; the trail holds the last two calls that committed
InitRace ==
    /\ \E present \in SUBSET Ids :
       \E logs \in [present -> {NullText, json_dumps(<<isoformat(1)>>),
                                json_dumps(<<isoformat(UtcDay(0))>>)}] :
          habits = [h \in present |-> SeedHabit(h, logs[h])]
    /\ session \in Sessions
    /\ InitRest

NextRace ==
    \/ \E call \in Calls : \E hid \in Ids \cup {UnknownId} : toggle_begin(call, hid)
    \/ \E call \in Calls : toggle_commit(call)

SpecRace == InitRace /\ [][NextRace]_vars

\* --------------------------------- completion tracker: two calls, claims
\* the log that a call in flight computes from the row it read
Computed(call) ==
    toggle_text(inflight[call].read, isoformat(inflight[call].day)).text

\* C24: the commit of a call stores the log the call computed from the value
\* it read, whatever the other call has stored in between (nothing orders
\* the two calls and the last write wins); the stored log is then a
\* well-formed list in which today's date occurs at most once.
C24_LastWriteWins ==
    [][\A call \in Calls :
          (inflight[call].pc = "read" /\ toggle_commit(call)) =>
              LET hid == inflight[call].hid
              IN  /\ response'.status = 302
                  /\ habits'[hid].completed_dates = Computed(call)
                  /\ WellFormedLog(habits'[hid].completed_dates)
                  /\ Occurrences(habits'[hid].completed_dates, today) <= 1]_vars

\* both calls read the same log of one habit before either committed, and
\* both have committed: the stored log is what the last one computed, one
\* toggle of the log they read
C24_Witness ==
    /\ Len(trail) = 2
    /\ trail[1].hid = trail[2].hid
    /\ trail[1].before = trail[2].before
    /\ trail[1].status = 302 /\ trail[2].status = 302
    /\ \A call \in Calls : inflight[call].pc = "idle"
    /\ trail[2].hid \in DOMAIN habits
    /\ habits[trail[2].hid].completed_dates =
          toggle_text(trail[2].before, isoformat(trail[2].day)).text
    /\ Occurrences(habits[trail[2].hid].completed_dates, today) = 1

\* the step serves a GET of the habit list, to any caller
AnyGetStep ==
    /\ response'.handler = "habit_tracker"
    /\ habit_tracker_get(response'.args)

\* the previous request was the same GET, served to the same caller
SameGetAgain ==
    /\ response.handler = "habit_tracker"
    /\ response.args = response'.args
    /\ response.status = response'.status

QuizQuestions ==
    [q \in 1..4 |-> IF q \in {1, 4} THEN "energy" ELSE "motivation"]

\* a question id that no question has
UnknownQuestion == Len(QuizQuestions) + 1

\* the answers a form posts: an option letter, in either case
Letters == {"A", "B", "C", "D", "d"}

\* str.upper() of an option letter
upper_char(c) == IF c = "d" THEN "D" ELSE c

\* a score that starts at 0 for option A
score_from_zero(answer) == ord(upper_char(answer)) - ord("A")

\* ord(answer.upper()) - ord('A') + 1
score(answer) == ord(upper_char(answer)) - ord("A") + 1

\* the loop over answers.items(): the total and the count of one category;
\* an answer whose question does not exist is skipped
RECURSIVE tally(_, _, _)
tally(answers, ids, category) ==
    IF ids = {} THEN [score |-> 0, count |-> 0]
    ELSE LET q    == CHOOSE i \in ids : TRUE
             rest == tally(answers, ids \ {q}, category)
         IN  IF q \in DOMAIN QuizQuestions /\ QuizQuestions[q] = category
             THEN [score |-> rest.score + score(answers[q]),
                   count |-> rest.count + 1]
             ELSE rest

\* scores['energy'] / category_counts['energy'], or 2.5 without an energy
\* answer: the quotient as a fraction
energy_avg(answers) ==
    LET energy == tally(answers, DOMAIN answers, "energy")
    IN  IF energy.count > 0
        THEN [num |-> energy.score, den |-> energy.count]
        ELSE [num |-> 5, den |-> 2]

\* calculate_personality: the name of the PersonalityType row it returns
calculate_personality(answers) ==
    LET avg == energy_avg(answers)
    IN  IF avg.num >= 3 * avg.den THEN "Morning Warrior"
        ELSE IF avg.num <= 2 * avg.den THEN "Night Owl"
        ELSE "Steady Achiever"

\* POST /habit-tracker/quiz/answer with the form of question page 'current'
\* of 'total' pages
answer(question_id, letter, current) ==
    LET total == Len(QuizQuestions)
    IN  /\ IF ~session.authenticated
           THEN /\ response' = Response("answer", "/habit-tracker/quiz/answer", 0,
                                        302, "/signin")
                /\ UNCHANGED quiz_answers
           ELSE /\ quiz_answers' = dict_set(quiz_answers, question_id, letter)
                /\ response' = Response("answer", "/habit-tracker/quiz/answer", 0, 302,
                                        IF current + 1 > total
                                        THEN "/habit-tracker/quiz/results"
                                        ELSE "/habit-tracker/quiz/question")
        /\ trail' = <<>>
        /\ UNCHANGED <<habits, notifications, prefs, session, now, deleted,
                       emergency_pauses, otp_store, inflight, swept, quiz_results>>

\* GET /habit-tracker/quiz/results: computes the personality, saves it as
\* the user's result and drops the answers from the session
results ==
    /\ IF ~session.authenticated
       THEN /\ response' = Response("results", "/habit-tracker/quiz/results", 0,
                                    302, "/signin")
            /\ UNCHANGED <<quiz_answers, quiz_results>>
       ELSE IF quiz_answers = NoAnswers
       THEN /\ response' = Response("results", "/habit-tracker/quiz/results", 0,
                                    302, "/habit-tracker/quiz/start")
            /\ UNCHANGED <<quiz_answers, quiz_results>>
       ELSE /\ response' = [Response("results", "/habit-tracker/quiz/results", 0,
                                     200, "")
                               EXCEPT !.personality = calculate_personality(quiz_answers)]
            /\ quiz_results' = dict_set(quiz_results, session.user_id,
                                        calculate_personality(quiz_answers))
            /\ quiz_answers' = NoAnswers
    /\ trail' = <<>>
    /\ UNCHANGED <<habits, notifications, prefs, session, now, deleted,
                   emergency_pauses, otp_store, inflight, swept>>

InitQuiz ==
    /\ habits = <<>>
    /\ session \in Sessions
    /\ InitRest

NextQuiz ==
    \/ \E q \in DOMAIN QuizQuestions \cup {UnknownQuestion} :
       \E letter \in Letters : answer(q, letter, q)
    \/ results

SpecQuiz == InitQuiz /\ [][NextQuiz]_vars

\* -------------------------------------------------- personality quiz: claims
\* the options and their scores
OptionScore(letter) ==
    CASE letter \in {"A"} -> 1 [] letter \in {"B"} -> 2 [] letter \in {"C"} -> 3
      [] OTHER -> 4

RECURSIVE Sum(_, _)
Sum(f, S) ==
    IF S = {} THEN 0
    ELSE LET x == CHOOSE y \in S : TRUE IN OptionScore(f[x]) + Sum(f, S \ {x})

\* the answered questions of the energy category
EnergyAnswered(answers) ==
    {q \in DOMAIN answers : q \in DOMAIN QuizQuestions /\ QuizQuestions[q] = "energy"}

archived_lists ==
    LET rows == {h \in DOMAIN habits : habits[h].is_archived}
    IN  {s \in [1..Cardinality(rows) -> rows] :
            /\ \A i, j \in DOMAIN s : s[i] = s[j] => i = j
            /\ \A i, j \in DOMAIN s :
                  i < j => habits[s[i]].archived_at >= habits[s[j]].archived_at}

\* GET /habit-tracker/archived
archived_habits ==
    /\ IF ~session.authenticated
       THEN response' = Response("archived_habits", "/habit-tracker/archived", 0,
                                 302, "/signin")
       ELSE \E rows \in archived_lists :
               response' = [Response("archived_habits", "/habit-tracker/archived", 0,
                                     200, "")
                               EXCEPT !.archived = rows]
    /\ trail' = <<>>
    /\ UNCHANGED <<habits, notifications, prefs, session, now, deleted,
                   emergency_pauses, otp_store, inflight, swept, quiz_answers,
                   quiz_results>>

\* the habits of the stores that the views are taken of: one in each status
ViewedHabits ==
    {StoredHabit("Read", NoneStr, NoneStr, "Medium", 0, st) :
        st \in {"active", "paused", "archived", "paused+archived"}}

\* the main view, the archived view and the statistics, on stores that the
\* status handlers change, for a user who switched notifications off
InitViews ==
    /\ \E present \in SUBSET Ids : habits \in [present -> ViewedHabits]
    /\ session \in Sessions
    /\ notifications = <<>>
    /\ prefs = [e \in Emails |-> "off"]
    /\ now = 0
    /\ response = NoResponse
    /\ trail = <<>>
    /\ deleted = {}
    /\ emergency_pauses = <<>>
    /\ otp_store = NoOtps
    /\ inflight = NoCalls
    /\ swept = NoSwept
    /\ quiz_answers = NoAnswers
    /\ quiz_results = NoQuizResults

NextViews ==
    \/ \E sort \in {NoneStr, "newest"} : habit_tracker_get([NoArgs EXCEPT !.sort = sort])
    \/ archived_habits
    \/ habit_stats
    \/ \E hid \in Ids : archive_habit(hid)
    \/ \E hid \in Ids : unarchive_habit(hid)
    \/ \E hid \in Ids : pause_habit(hid)
    \/ \E hid \in Ids : resume_habit(hid)

SpecViews == InitViews /\ [][NextViews]_vars

\* ----------------------------------------------------- the views: claims
\* the three classes of habits
ActiveClass == {h \in DOMAIN habits : ~habits[h].is_archived /\ ~habits[h].is_paused}
PausedClass == {h \in DOMAIN habits : habits[h].is_paused /\ ~habits[h].is_archived}
ArchivedClass == {h \in DOMAIN habits : habits[h].is_archived}

\* C27: in every reachable state each habit is in exactly one of the classes
\* active, paused and archived; the active list and the paused list of the
\* main view hold habits of their own class only and the archived view holds
\* archived habits only, so the three lists share no habit; the statistics
\* count each class and active + paused + archived is the total.
C27_StatusPartition ==
    /\ [](\A h \in DOMAIN habits :
            Cardinality({c \in {"active", "paused", "archived"} :
                \/ c = "active" /\ h \in ActiveClass
                \/ c = "paused" /\ h \in PausedClass
                \/ c = "archived" /\ h \in ArchivedClass}) = 1)
    /\ [][(response'.status = 200 /\ response'.handler = "habit_tracker"
             /\ habit_tracker_get(response'.args)) =>
            /\ Range(response'.listed) \subseteq ActiveClass
            /\ Range(response'.paused) \subseteq PausedClass
            /\ Range(response'.listed) \cap Range(response'.paused) = {}]_vars
    /\ [][(response'.status = 200 /\ response'.handler = "archived_habits"
             /\ archived_habits) =>
            Range(response'.archived) = ArchivedClass]_vars
    /\ [][(response'.status = 200 /\ response'.handler = "habit_stats"
             /\ habit_stats) =>
            /\ response'.stats.active_habits = Cardinality(ActiveClass)
            /\ response'.stats.paused_habits = Cardinality(PausedClass)
            /\ response'.stats.archived_habits = Cardinality(ArchivedClass)
            /\ response'.stats.active_habits + response'.stats.paused_habits
                  + response'.stats.archived_habits = response'.stats.total_habits]_vars

\* the statistics of a store that holds a habit that is both paused and
\* archived, and a habit that is only paused
C27_Witness ==
    /\ response.handler = "habit_stats"
    /\ response.status = 200
    /\ response.stats.total_habits = 2
    /\ response.stats.archived_habits = 1
    /\ response.stats.paused_habits = 1
    /\ \E h \in DOMAIN habits : habits[h].is_archived /\ habits[h].is_paused

\* -------------------------------------------- the list and the positions
\* the drag-and-drop payloads: an order of habit ids
OrderPayloads ==
    {[body |-> "object", order_kind |-> "list", order |-> o] :
        o \in SeqsUpTo({Element("int", n) : n \in Ids}, MaxOrder)}

\* the habits that are dragged: active habits that differ in priority, age
\* and name, and a paused one
DraggedHabits ==
    {StoredHabit("Read", NoneStr, NoneStr,  "High",   0, "active"),
     StoredHabit("walk", "daily", "Health", "Medium", 0, "active"),
     StoredHabit("walk", NoneStr, "health", "Low",    1, "active"),
     StoredHabit("Read", NoneStr, "Health", "Medium", 1, "paused")}

\* the main view between drags, on stores whose habits have no position yet
InitOrder ==
    /\ \E present \in SUBSET Ids : habits \in [present -> DraggedHabits]
    /\ session \in Sessions
    /\ InitRest

NextOrder ==
    \/ \E payload \in OrderPayloads : reorder_habits(payload)
    \/ \E sort \in {NoneStr, "az", "newest"} :
          habit_tracker_get([NoArgs EXCEPT !.sort = sort])

SpecOrder == InitOrder /\ [][NextOrder]_vars

\* ------------------------------------ the list and the positions: claims
\* the store with every position forgotten
Unpositioned(store) == [h \in DOMAIN store |-> [store[h] EXCEPT !.position = Null]]

\* the query strings that the lists are compared for: every sort key, a
\* search, a category filter and a priority filter
ComparedArgs ==
    {[NoArgs EXCEPT !.sort = k] :
        k \in {NoneStr, "priority", "az", "za", "oldest", "newest", "random"}}
    \cup {[NoArgs EXCEPT !.search = <<"E", "A">>],
          [NoArgs EXCEPT !.category = <<"Health">>],
          [NoArgs EXCEPT !.priority = <<"Medium", ",", "Low">>]}

\* C28: in every reachable state the active list composed from the store is
\* the list composed from the store with its positions forgotten, for every
\* sort key, a search and the filters, so two stores that differ only in
\* positions give the same ordered list; and a reorder call changes nothing
\* of the store but positions, so no reorder changes the list.
C28_ListIgnoresPosition ==
    /\ [](\A args \in ComparedArgs :
            compose(habits, args) = compose(Unpositioned(habits), args))
    /\ [][(response'.handler = "reorder_habits" /\ reorder_habits(response'.payload)) =>
            Unpositioned(habits') = Unpositioned(habits)]_vars

\* the main view lists habit 1 before habit 2 although a drag has put habit
\* 2 first
C28_Witness ==
    /\ response.handler = "habit_tracker"
    /\ response.status = 200
    /\ response.listed = <<1, 2>>
    /\ habits[2].position # Null
    /\ habits[1].position # Null
    /\ habits[2].position < habits[1].position

\* ------------------------------------------- completion tracker: the frame
\* a habit in one of the statuses with a log the program wrote; the habits
\* that left the active list were dragged to a position before they left
FramedHabits ==
    {[StoredHabit("Read", "daily", "Health", "High", 0, st)
        EXCEPT !.completed_dates = log,
               !.position = IF st = "active" THEN Null ELSE 1] :
        st  \in {"active", "paused", "archived", "paused+archived"},
        log \in {NullText, json_dumps(<<isoformat(UtcDay(0))>>)}}

\* toggles of habits in every status, for a user whose notifications are on
InitFrame ==
    /\ \E present \in SUBSET Ids : habits \in [present -> FramedHabits]
    /\ session \in Sessions
    /\ InitRest

NextFrame == \E hid \in Ids \cup {UnknownId} : toggle_completion(CanonicalToggle, hid)

SpecFrame == InitFrame /\ [][NextFrame]_vars

\* ----------------------------------- completion tracker: the frame, claims
\* C29: a toggle changes no habit but the one it addresses and of that one
\* only completed_dates (name, category, priority, created_at, position and
\* the status flags and timestamps stay), creates and deletes no habit and
\* writes no notification; served to an authenticated caller for a habit
\* that exists it stores the toggled log whatever the status of the habit.
C29_ToggleFrame ==
    [][(response'.handler = "toggle_completion"
          /\ toggle_completion(CanonicalToggle, response'.hid)) =>
          LET hid == response'.hid
          IN  /\ DOMAIN habits' = DOMAIN habits
              /\ \A h \in DOMAIN habits \ {hid} : habits'[h] = habits[h]
              /\ hid \in DOMAIN habits =>
                    [habits'[hid] EXCEPT !.completed_dates = habits[hid].completed_dates]
                       = habits[hid]
              /\ notifications' = notifications
              /\ (session.authenticated /\ hid \in DOMAIN habits) =>
                    /\ response'.status = 302
                    /\ habits'[hid].completed_dates =
                          toggle_text(habits[hid].completed_dates, today).text]_vars

\* a habit that is paused and archived and has a position was toggled on:
\* its log holds today and the other habit is active
C29_Witness ==
    /\ response.handler = "toggle_completion"
    /\ response.status = 302
    /\ response.authenticated
    /\ response.hid \in DOMAIN habits
    /\ habits[response.hid].is_paused
    /\ habits[response.hid].is_archived
    /\ habits[response.hid].position = 1
    /\ Occurrences(habits[response.hid].completed_dates, today) = 1
    /\ \E h \in DOMAIN habits : ~habits[h].is_paused /\ ~habits[h].is_archived

\* ------------------------------------------------- emergency pause: expiry
\* the status endpoint while the clock runs: user 1 with habits in every
\* status pauses for a day or for the default duration, asks for the status
\* and resumes
InitExpiry ==
    /\ \E present \in SUBSET Ids :
          habits \in [present -> {UserHabit(1, status) : status \in {"active", "paused"}}]
    /\ session \in {[authenticated |-> a, email |-> "test@example.com", user_id |-> 1] :
                       a \in BOOLEAN}
    /\ notifications = <<>>
    /\ prefs = [e \in Emails |-> "off"]
    /\ now = 0
    /\ response = NoResponse
    /\ trail = <<>>
    /\ deleted = {}
    /\ emergency_pauses = <<>>
    /\ otp_store = NoOtps
    /\ inflight = NoCalls
    /\ swept = NoSwept
    /\ quiz_answers = NoAnswers
    /\ quiz_results = NoQuizResults

NextExpiry ==
    \/ \E duration_days \in Durations : activate_pause(duration_days)
    \/ get_status
    \/ resume
    \/ Tick

SpecExpiry == InitExpiry /\ [][NextExpiry]_vars

\* ----------------------------------------- emergency pause: expiry, claims
\* the step is a status request
StatusStep ==
    /\ response'.handler = "get_status"
    /\ get_status

\* the session is authenticated and its user's active pause is past ends_at
Expired ==
    /\ session.authenticated
    /\ active_pause(session.user_id) # 0
    /\ now >= emergency_pauses[active_pause(session.user_id)].ends_at

\* the previous request was a status request of the same user that
\* auto-resumed
JustExpired ==
    /\ response.handler = "get_status"
    /\ response.auto_resumed
    /\ response.user_id = session.user_id

\* C30: a status request changes no habit; when it finds the active pause
\* of the authenticated user past its ends_at it answers 200 with is_paused
\* false and auto_resumed true, marks that pause inactive with ended_at the
\* current time and leaves the other pause records alone, after which the
\* user has no active pause and the habits that pause paused are still
\* paused; an emergency resume of a user who has no active pause, and so the
\* one that follows the expiry, answers 404 and changes neither a habit nor
\* a pause record.
C30_ExpiryLeavesHabitsPaused ==
    /\ [][StatusStep =>
            /\ habits' = habits
            /\ Expired =>
                  LET i == active_pause(session.user_id)
                  IN  /\ response'.status = 200
                      /\ response'.auto_resumed
                      /\ ~response'.is_paused
                      /\ emergency_pauses' =
                            [emergency_pauses EXCEPT ![i].is_active = FALSE,
                                                     ![i].ended_at = now]
                      /\ ActiveIn(emergency_pauses', session.user_id) = {}
                      /\ \A h \in swept[session.user_id] : habits'[h].is_paused
            /\ ~Expired => /\ ~response'.auto_resumed
                           /\ emergency_pauses' = emergency_pauses]_vars
    /\ [][(EmergencyResumeStep /\ session.authenticated
             /\ (JustExpired \/ ActiveIn(emergency_pauses, session.user_id) = {})) =>
            /\ response'.status = 404
            /\ habits' = habits
            /\ emergency_pauses' = emergency_pauses]_vars

\* an emergency resume was answered 404 after the status request expired the
\* pause: the record is inactive, ended at or after its ends_at, and a habit
\* it paused is still paused with the timestamp of the activation
C30_Witness ==
    /\ response.handler = "resume"
    /\ response.status = 404
    /\ response.authenticated
    /\ \E i \in 1..Len(emergency_pauses) :
          /\ emergency_pauses[i].user_id = response.user_id
          /\ ~emergency_pauses[i].is_active
          /\ emergency_pauses[i].ended_at # Null
          /\ emergency_pauses[i].ended_at >= emergency_pauses[i].ends_at
          /\ \E h \in swept[response.user_id] :
                /\ habits[h].is_paused
                /\ habits[h].paused_at = emergency_pauses[i].started_at

====
